---- MODULE Spec2Model ----
(***************************************************************************)
(* Model of the provider adapters of pkg/llm (OpenAI-compatible, Gemini,   *)
(* Ollama): one Query or Stream call per behaviour, with the byte stream   *)
(* of the reply, the decoder's position in it and the deltas handed to     *)
(* onDelta; and of the Conversation message log with its RWMutex.          *)
(*                                                                         *)
(* Text is a sequence of atoms (a string cut in pieces), so that string    *)
(* concatenation is \o and the empty string is << >>.                      *)
(***************************************************************************)
EXTENDS Integers, Sequences, FiniteSets, TLC

\* ------------------------------------------------------------------ bounds
MaxLines == 3
MaxElems == 2
NProcs == 2
MaxAppends == 2
MaxCalls == 2
MaxMsgs == 2

\* ----------------------------------------------------------------- strings
HasPrefix(s, p) == Len(s) >= Len(p) /\ SubSeq(s, 1, Len(p)) = p

TrimPrefix(s, p) == IF HasPrefix(s, p) THEN SubSeq(s, Len(p) + 1, Len(s)) ELSE s

RECURSIVE Concat(_)
Concat(ss) == IF ss = << >> THEN << >> ELSE Head(ss) \o Concat(Tail(ss))

\* JSON white space around a value is skipped by encoding/json.
RECURSIVE TrimLeftSpace(_)
TrimLeftSpace(s) == IF s # << >> /\ Head(s) = " " THEN TrimLeftSpace(Tail(s)) ELSE s

RECURSIVE TrimRightSpace(_)
TrimRightSpace(s) ==
  IF s # << >> /\ s[Len(s)] = " " THEN TrimRightSpace(SubSeq(s, 1, Len(s) - 1)) ELSE s

NoUsage == << >>

\* ------------------------------------------------ event-stream wire texts
JHello == "{\"choices\":[{\"delta\":{\"content\":\"Hello,\"}}]}"
JWorld == "{\"choices\":[{\"delta\":{\"content\":\" world!\"},\"finish_reason\":\"stop\"}]}"
JUsage == "{\"choices\":[],\"usage\":{\"prompt_tokens\":5,\"completion_tokens\":10,\"total_tokens\":15}}"
JBad == "{\"choices\":[{\"delta\""
JTooLong == "{...more than bufio.MaxScanTokenSize bytes...}"

DataPrefix == <<"data:", " ">>
DoneMarker == <<"[DONE]">>

LHello == DataPrefix \o <<JHello>>
LWorld == DataPrefix \o <<JWorld>>
LDone == DataPrefix \o DoneMarker
LUsage == DataPrefix \o <<JUsage>>
LBad == DataPrefix \o <<JBad>>
LLong == DataPrefix \o <<JTooLong>>
LEmpty == << >>
\* the same frames without the space after the colon
LHelloNS == <<"data:", JHello>>
LWorldNS == <<"data:", JWorld>>
LDoneNS == <<"data:", "[DONE]">>

Lines == {LHello, LWorld, LDone, LUsage, LBad, LLong, LEmpty, LHelloNS, LWorldNS, LDoneNS}

\* a decoder that reads a chunk with a text delta out of every payload
UnmarshalChunkLenient(data) ==
  [ok |-> TRUE, choices |-> <<[content |-> <<"Hello,">>, finish |-> ""]>>, usage |-> NoUsage]

\* json.Unmarshal([]byte(data), &chunk) into streamChunk
UnmarshalChunk(data) ==
  LET v == TrimRightSpace(TrimLeftSpace(data)) IN
  IF Len(v) # 1 THEN [ok |-> FALSE, choices |-> << >>, usage |-> NoUsage]
  ELSE IF v[1] = JHello
    THEN [ok |-> TRUE, choices |-> <<[content |-> <<"Hello,">>, finish |-> ""]>>, usage |-> NoUsage]
  ELSE IF v[1] = JWorld
    THEN [ok |-> TRUE, choices |-> <<[content |-> <<" world!">>, finish |-> "stop"]>>, usage |-> NoUsage]
  ELSE IF v[1] = JUsage
    THEN [ok |-> TRUE, choices |-> << >>, usage |-> <<[prompt |-> 5, completion |-> 10, total |-> 15]>>]
  ELSE [ok |-> FALSE, choices |-> << >>, usage |-> NoUsage]

\* bufio.Scanner gives up on a line that does not fit its buffer (ErrTooLong).
LineTooLong(line) == \E i \in 1..Len(line) : line[i] = JTooLong

TextDelta(t) == [Text |-> t, Done |-> FALSE, FinishReason |-> ""]

\* a final delta that forgets the finish reason
DoneDeltaNoReason(fr) == [Text |-> << >>, Done |-> TRUE, FinishReason |-> ""]

DoneDelta(fr) == [Text |-> << >>, Done |-> TRUE, FinishReason |-> fr]

\* ----------------------------------------------------------------- state
VARIABLES
  provider,      \* "openai" | "gemini" | "ollama": the adapter the call is made on
  op,            \* "Query" | "Stream"
  reqKind,       \* the request argument: "nil" | "empty" (no message) | "ok"
  cbNil,         \* onDelta == nil
  status,        \* HTTP status of the reply
  body,          \* reply body: event-stream lines, JSON tokens, or one reply text
  pc,            \* position of the call
  httpSent,      \* client.Do was called
  ctxDone,       \* the call's context was cancelled / its deadline expired
  avail,         \* how many items of body reach the reader (Len(body): all, then EOF)
  partial,       \* of item avail+1, how much was received before the read failed
  pos,           \* items of body consumed by the decoder
  scErr,         \* bufio.Scanner.err / json.Decoder.err: "none" or the sticky error
  ioErr,         \* a read of the body has returned a non-EOF error
  tokenState,    \* json.Decoder.tokenState
  fullText,      \* strings.Builder fullText
  finalResponse, \* the LLMResponse under construction
  deltas,        \* the values onDelta was called with, in call order
  ret            \* what the call returned

vars == <<provider, op, reqKind, cbNil, status, body, pc, httpSent, ctxDone, avail,
          partial, pos, scErr, ioErr, tokenState, fullText, finalResponse, deltas, ret>>

inputVars == <<provider, op, reqKind, cbNil, status, body>>
decoderVars == <<pos, scErr, ioErr, tokenState>>
resultVars == <<fullText, finalResponse, deltas>>
netVars == <<ctxDone, avail, partial>>

\* ---------------------------------------------------- Conversation state
VARIABLES
  Messages,   \* Conversation.Messages: the elements of the slice, by value
  heap,       \* backing arrays of []ToolCall slices, by reference
  mu,         \* Conversation.mu: [w: the goroutine holding Lock (0: none), r: those holding RLock]
  cpc,        \* per goroutine: "idle", "w" (in a writer, between Lock and Unlock), "r" (between RLock and RUnlock)
  carg,       \* per goroutine: the message the writer is appending
  clocal,     \* per goroutine: c.Messages as the writer's append read it
  copy,       \* per goroutine: the slice its last MessagesCopy returned (its own to change)
  res,        \* per goroutine: what its last call returned: "none" | "ok" | "err"
  appended    \* the messages whose append took effect, in that order

convVars == <<Messages, heap, mu, cpc, carg, clocal, copy, res, appended>>

\* ------------------------------------------------- tool calls across calls
VARIABLES
  reqToolCalls,  \* the ToolCalls of the assistant message the request carries
  uuidCount,     \* how many IDs uuid.NewString() has handed out in this process
  issued,        \* the ToolCall IDs of the responses the earlier Query calls returned
  calls          \* the Query calls made so far, this one included

toolVars == <<reqToolCalls, uuidCount, issued, calls>>

\* ------------------------------------- payloads, StreamQuery, the tool flow
VARIABLES
  reqMessages,   \* LLMRequest.Messages of the request a payload is built from
  payload,       \* the geminiRequest built from it
  received,      \* the values the consumer has received from deltaChan, in order
  chClosed,      \* how many times close(deltaChan) has run
  consumer,      \* the consumer of deltaChan: "off" | "recv" (in its range loop) | "stopped" | "end"
  fpc,           \* position of main in cmd/toolCalling ("off": not running)
  ti             \* tool calls of the first response that main's loop has handled

auxVars == <<reqMessages, payload, received, chClosed, consumer, fpc, ti>>
allVars == <<vars, convVars, toolVars, auxVars>>

NoPayload == [built |-> FALSE, contents |-> << >>, systemInstruction |-> << >>]

\* nothing but the adapters and the Conversation is running
AuxIdle ==
  /\ reqMessages = << >> /\ payload = NoPayload
  /\ received = << >> /\ chClosed = 0 /\ consumer = "off"
  /\ fpc = "off" /\ ti = 0

NoResp == [Text |-> << >>, FinishReason |-> "", Usage |-> NoUsage, ToolCalls |-> << >>]
\* raw: the reply body the error message carries (<< >>: none, <<b>>: the body b)
NotReturned == [kind |-> "none", resp |-> NoResp, err |-> "", raw |-> << >>]
ReturnErr(e) == [kind |-> "err", resp |-> NoResp, err |-> e, raw |-> << >>]
ReturnErrBody(e, b) == [kind |-> "err", resp |-> NoResp, err |-> e, raw |-> <<b>>]
ReturnOk(r) == [kind |-> "ok", resp |-> r, err |-> "", raw |-> << >>]

Is2xx(s) == ~(s < 200 \/ s >= 300)

\* a read of the body at the decoder's position fails (the context is done and
\* the rest of the body never arrived); or it hits the end of the body
ReadFails == pos = avail /\ avail < Len(body)
AtEOF == pos = avail /\ avail = Len(body)

\* ------------------------------------------- openAICompatibleProvider.Stream
\* validation, payload and client.Do
OpenAIStreamStart ==
  /\ provider = "openai" /\ op = "Stream" /\ pc = "start"
  /\ IF reqKind = "nil" THEN
       /\ ret' = ReturnErr("request cannot be nil")
       /\ pc' = "done" /\ UNCHANGED httpSent
     ELSE IF cbNil THEN
       /\ ret' = ReturnErr("onDelta callback cannot be nil for streaming")
       /\ pc' = "done" /\ UNCHANGED httpSent
     ELSE IF reqKind = "empty" THEN
       /\ ret' = ReturnErr("request must have at least one message")
       /\ pc' = "done" /\ UNCHANGED httpSent
     ELSE
       /\ pc' = "send" /\ httpSent' = TRUE /\ UNCHANGED ret
  /\ UNCHANGED <<convVars, toolVars, auxVars, inputVars, netVars, decoderVars, resultVars>>

OpenAIStreamDo ==
  /\ provider = "openai" /\ op = "Stream" /\ pc = "send"
  /\ IF ctxDone THEN
       /\ ret' = ReturnErr("failed to send stream request")
       /\ pc' = "done"
     ELSE IF ~Is2xx(status) THEN
       /\ ret' = ReturnErrBody("received non-2xx status code", body)
       /\ pc' = "done"
     ELSE
       /\ pc' = "scan" /\ UNCHANGED ret
  /\ UNCHANGED <<convVars, toolVars, auxVars, inputVars, httpSent, netVars, decoderVars, resultVars>>

\* a builder that keeps only the last fragment written
WriteStringReplacing(full, t) == t

\* strings.Builder.WriteString
WriteString(full, t) == full \o t

\* a loop that also reports Done as soon as a chunk carries a finish reason
ChunkDeltasDoneOnFinish(textDelta, finishReason) ==
  (IF textDelta # << >> THEN <<TextDelta(textDelta)>> ELSE << >>)
    \o (IF finishReason # "" THEN <<DoneDelta(finishReason)>> ELSE << >>)

\* the onDelta calls of the loop body for one chunk: the text delta when it is
\* not empty; the chunk's finish reason is captured, never emitted
ChunkDeltas(textDelta, finishReason) ==
  IF textDelta # << >> THEN <<TextDelta(textDelta)>> ELSE << >>

\* the body of the scan loop for one line: <<fullText, finalResponse, deltas, stop>>
OpenAILine(line, full, fr, ds) ==
  IF ~HasPrefix(line, DataPrefix) THEN <<full, fr, ds, FALSE>>
  ELSE LET data == TrimPrefix(line, DataPrefix) IN
    IF data = DoneMarker THEN <<full, fr, ds, TRUE>>
    ELSE LET chunk == UnmarshalChunk(data) IN
      IF ~chunk.ok THEN <<full, fr, ds, FALSE>>
      ELSE
        LET has == Len(chunk.choices) > 0
            textDelta == IF has THEN chunk.choices[1].content ELSE << >>
            emit == has /\ textDelta # << >>
            fr1 == IF has /\ chunk.choices[1].finish # ""
                   THEN [fr EXCEPT !.FinishReason = chunk.choices[1].finish] ELSE fr
            fr2 == IF chunk.usage # NoUsage THEN [fr1 EXCEPT !.Usage = chunk.usage] ELSE fr1
        IN <<IF emit THEN WriteString(full, textDelta) ELSE full,
             fr2,
             ds \o ChunkDeltas(textDelta, IF has THEN chunk.choices[1].finish ELSE ""),
             FALSE>>

\* one scanner.Scan() that returns true, and the loop body on its token
OpenAIScanLine ==
  /\ provider = "openai" /\ op = "Stream" /\ pc = "scan" /\ scErr = "none"
  /\ \/ /\ pos < avail /\ ~LineTooLong(body[pos + 1])
        /\ LET r == OpenAILine(body[pos + 1], fullText, finalResponse, deltas) IN
             /\ fullText' = r[1] /\ finalResponse' = r[2] /\ deltas' = r[3]
             /\ pc' = IF r[4] THEN "fin" ELSE "scan"
        /\ pos' = pos + 1
        /\ UNCHANGED <<scErr, ioErr>>
     \/ \* the read fails with a piece of the next line buffered: the scanner
        \* hands the piece out as the last token
        /\ ReadFails /\ partial > 0
        /\ LET r == OpenAILine(SubSeq(body[pos + 1], 1, partial), fullText, finalResponse, deltas) IN
             /\ fullText' = r[1] /\ finalResponse' = r[2] /\ deltas' = r[3]
             /\ pc' = IF r[4] THEN "fin" ELSE "scan"
        /\ scErr' = "ctx" /\ ioErr' = TRUE
        /\ UNCHANGED pos
  /\ UNCHANGED <<convVars, toolVars, auxVars, inputVars, httpSent, netVars, tokenState, ret>>

\* scanner.Scan() returns false: end of body, a read error or a line too long
OpenAIScanEnd ==
  /\ provider = "openai" /\ op = "Stream" /\ pc = "scan"
  /\ \/ /\ scErr = "none" /\ AtEOF
        /\ UNCHANGED <<scErr, ioErr>>
     \/ /\ scErr = "none" /\ ReadFails /\ partial = 0
        /\ scErr' = "ctx" /\ ioErr' = TRUE
     \/ /\ scErr = "none" /\ pos < avail /\ LineTooLong(body[pos + 1])
        /\ scErr' = "toolong" /\ UNCHANGED ioErr
     \/ /\ scErr # "none"
        /\ UNCHANGED <<scErr, ioErr>>
  /\ pc' = "fin"
  /\ UNCHANGED <<convVars, toolVars, auxVars, inputVars, httpSent, netVars, pos, tokenState, resultVars, ret>>

\* after the loop: scanner.Err(), the final Done delta, the return
OpenAIStreamFinish ==
  /\ provider = "openai" /\ op = "Stream" /\ pc = "fin"
  /\ IF scErr # "none" THEN
       /\ ret' = ReturnErr("error reading stream")
       /\ UNCHANGED resultVars
     ELSE
       /\ deltas' = Append(deltas, DoneDelta(finalResponse.FinishReason))
       /\ finalResponse' = [finalResponse EXCEPT !.Text = fullText]
       /\ ret' = ReturnOk(finalResponse')
       /\ UNCHANGED fullText
  /\ pc' = "done"
  /\ UNCHANGED <<convVars, toolVars, auxVars, inputVars, httpSent, netVars, decoderVars>>

\* the reply of a server that refuses the request
ErrorText == "{\"error\":\"bad request\"}"

\* ------------------------------------------------------ Gemini wire texts
GHello == "{\"candidates\":[{\"content\":{\"parts\":[{\"text\":\"Hello,\"}]},\"finishReason\":\"RECITATION\",\"index\":0}]}"
GWorld == "{\"candidates\":[{\"content\":{\"parts\":[{\"text\":\" world!\"}]},\"finishReason\":\"STOP\",\"index\":0}],\"usageMetadata\":{\"promptTokenCount\":5,\"candidatesTokenCount\":10,\"totalTokenCount\":15}}"
GTwoParts == "{\"candidates\":[{\"content\":{\"parts\":[{\"text\":\"Hello,\"},{\"text\":\" world!\"}]}}]}"
GNoCand == "{\"candidates\":[]}"
GType == "{\"candidates\":7}"
GBad == "{\"candidates\":[{\"content\""

GeminiObjects == {GHello, GWorld, GTwoParts, GNoCand, GType, GBad}

ZeroUsage == [prompt |-> 0, completion |-> 0, total |-> 0]

\* decoder.Decode(&chunk) on one complete JSON value, into geminiResponse:
\* syntax: the text is well-formed JSON; ok: it also fits the struct
UnmarshalGemini(j) ==
  IF j = GHello THEN
    [syntax |-> TRUE, ok |-> TRUE, usage |-> ZeroUsage,
     candidates |-> <<[parts |-> <<<<"Hello,">>>>, finish |-> "RECITATION"]>>]
  ELSE IF j = GWorld THEN
    [syntax |-> TRUE, ok |-> TRUE, usage |-> [prompt |-> 5, completion |-> 10, total |-> 15],
     candidates |-> <<[parts |-> <<<<" world!">>>>, finish |-> "STOP"]>>]
  ELSE IF j = GTwoParts THEN
    [syntax |-> TRUE, ok |-> TRUE, usage |-> ZeroUsage,
     candidates |-> <<[parts |-> <<<<"Hello,">>, <<" world!">>>>, finish |-> ""]>>]
  ELSE IF j \in {GNoCand, ErrorText} THEN
    [syntax |-> TRUE, ok |-> TRUE, usage |-> ZeroUsage, candidates |-> << >>]
  ELSE IF j = GType THEN
    [syntax |-> TRUE, ok |-> FALSE, usage |-> ZeroUsage, candidates |-> << >>]
  ELSE
    [syntax |-> FALSE, ok |-> FALSE, usage |-> ZeroUsage, candidates |-> << >>]

\* the first byte of a token of the body; "{" for every object text
FirstByte(tok) == IF tok \in GeminiObjects THEN "{" ELSE tok

\* ---------------------------------------------------- GeminiProvider.Stream
GeminiStreamStart ==
  /\ provider = "gemini" /\ op = "Stream" /\ pc = "start"
  /\ IF reqKind = "nil" THEN
       /\ ret' = ReturnErr("request cannot be nil")
       /\ pc' = "done" /\ UNCHANGED httpSent
     ELSE IF cbNil THEN
       /\ ret' = ReturnErr("onDelta callback cannot be nil for streaming")
       /\ pc' = "done" /\ UNCHANGED httpSent
     ELSE
       /\ pc' = "send" /\ httpSent' = TRUE /\ UNCHANGED ret
  /\ UNCHANGED <<convVars, toolVars, auxVars, inputVars, netVars, decoderVars, resultVars>>

GeminiStreamDo ==
  /\ provider = "gemini" /\ op = "Stream" /\ pc = "send"
  /\ IF ctxDone THEN
       /\ ret' = ReturnErr("failed to send gemini stream request")
       /\ pc' = "done"
     ELSE IF status # 200 THEN
       /\ ret' = ReturnErrBody("gemini stream returned non-200 status", body)
       /\ pc' = "done"
     ELSE
       /\ pc' = "token" /\ UNCHANGED ret
  /\ UNCHANGED <<convVars, toolVars, auxVars, inputVars, httpSent, netVars, decoderVars, resultVars>>

\* a decoder that takes any opening token
IsOpenBracketAny(t) == TRUE

\* t != json.Delim('[')
IsOpenBracket(t) == t = "["

\* decoder.Token() for the opening token, and the test on it
GeminiOpenToken ==
  /\ provider = "gemini" /\ op = "Stream" /\ pc = "token"
  /\ IF pos < avail \/ (ReadFails /\ partial > 0) THEN
       LET t == FirstByte(body[pos + 1]) IN
       IF t \in {"]", ","} THEN
         \* Token(): a syntax error at the top level
         /\ ret' = ReturnErr("failed to read opening token of JSON array")
         /\ pc' = "done" /\ UNCHANGED <<pos, tokenState, ioErr>>
       ELSE IF ~IsOpenBracket(t) THEN
         /\ ret' = ReturnErr("expected '[' at start of stream")
         /\ pc' = "done" /\ UNCHANGED <<pos, tokenState, ioErr>>
       ELSE
         /\ pos' = pos + 1 /\ tokenState' = "arrayStart"
         /\ pc' = "more" /\ UNCHANGED <<ret, ioErr>>
     ELSE
       \* peek fails: io.EOF on an empty body, or the read error
       /\ ret' = ReturnErr("failed to read opening token of JSON array")
       /\ ioErr' = (ioErr \/ ReadFails)
       /\ pc' = "done" /\ UNCHANGED <<pos, tokenState>>
  /\ UNCHANGED <<convVars, toolVars, auxVars, inputVars, httpSent, netVars, scErr, resultVars>>

\* decoder.More(): peek, and no error, and not a closing bracket
GeminiMore ==
  /\ provider = "gemini" /\ op = "Stream" /\ pc = "more"
  /\ IF pos < avail \/ (ReadFails /\ partial > 0) THEN
       /\ pc' = IF FirstByte(body[pos + 1]) \notin {"]", "}"} THEN "decode" ELSE "fin"
       /\ UNCHANGED ioErr
     ELSE
       /\ pc' = "fin"
       /\ ioErr' = (ioErr \/ ReadFails)
  /\ UNCHANGED <<convVars, toolVars, auxVars, inputVars, httpSent, netVars, pos, scErr, tokenState, resultVars, ret>>

\* a loop body that keeps the first finish reason it sees
GeminiChunkFirstFinish(chunk, full, fr, ds) ==
  LET hasC == Len(chunk.candidates) > 0
      hasP == hasC /\ Len(chunk.candidates[1].parts) > 0
      textDelta == IF hasP THEN chunk.candidates[1].parts[1] ELSE << >>
      emit == hasP /\ textDelta # << >>
      fr1 == IF hasC /\ chunk.candidates[1].finish # "" /\ fr.FinishReason = ""
             THEN [fr EXCEPT !.FinishReason = chunk.candidates[1].finish] ELSE fr
      fr2 == IF chunk.usage.total > 0 THEN [fr1 EXCEPT !.Usage = <<chunk.usage>>] ELSE fr1
  IN <<IF emit THEN WriteString(full, textDelta) ELSE full,
       fr2,
       ds \o ChunkDeltas(textDelta, IF hasC THEN chunk.candidates[1].finish ELSE "")>>

\* what the loop body does with a decoded chunk: <<fullText, finalResponse, deltas>>
GeminiChunk(chunk, full, fr, ds) ==
  LET hasC == Len(chunk.candidates) > 0
      hasP == hasC /\ Len(chunk.candidates[1].parts) > 0
      textDelta == IF hasP THEN chunk.candidates[1].parts[1] ELSE << >>
      emit == hasP /\ textDelta # << >>
      fr1 == IF hasC /\ chunk.candidates[1].finish # ""
             THEN [fr EXCEPT !.FinishReason = chunk.candidates[1].finish] ELSE fr
      fr2 == IF chunk.usage.total > 0 THEN [fr1 EXCEPT !.Usage = <<chunk.usage>>] ELSE fr1
  IN <<IF emit THEN WriteString(full, textDelta) ELSE full,
       fr2,
       ds \o ChunkDeltas(textDelta, IF hasC THEN chunk.candidates[1].finish ELSE "")>>

\* decoder.Decode(&chunk) and the loop body; every failure is `continue`
GeminiDecode ==
  /\ provider = "gemini" /\ op = "Stream" /\ pc = "decode"
  /\ pc' = "more"
  /\ IF scErr # "none" THEN
       \* dec.err is sticky: Decode returns it at once
       UNCHANGED <<pos, scErr, ioErr, tokenState, resultVars>>
     ELSE IF tokenState = "arrayComma" /\ FirstByte(body[pos + 1]) # "," THEN
       \* tokenPrepareForDecode: "expected comma after array element"; nothing consumed
       UNCHANGED <<pos, scErr, ioErr, tokenState, resultVars>>
     ELSE
       LET p == IF tokenState = "arrayComma" THEN pos + 1 ELSE pos
           ts == IF tokenState = "arrayComma" THEN "arrayValue" ELSE tokenState
       IN
       IF p < avail THEN
         LET tok == body[p + 1]
             chunk == UnmarshalGemini(tok) IN
         IF ~chunk.syntax THEN
           \* readValue: scanner error, or io.ErrUnexpectedEOF on a cut value
           /\ scErr' = "syntax" /\ pos' = p /\ tokenState' = ts
           /\ UNCHANGED <<ioErr, resultVars>>
         ELSE
           /\ pos' = p + 1 /\ tokenState' = "arrayComma"
           /\ UNCHANGED <<scErr, ioErr>>
           /\ IF ~chunk.ok THEN UNCHANGED resultVars
              ELSE LET r == GeminiChunk(chunk, fullText, finalResponse, deltas) IN
                   fullText' = r[1] /\ finalResponse' = r[2] /\ deltas' = r[3]
       ELSE
         \* readValue: the read fails (or hits EOF) before the value is complete
         /\ scErr' = IF p < Len(body) THEN "ctx" ELSE "eof"
         /\ ioErr' = (ioErr \/ p < Len(body))
         /\ pos' = p /\ tokenState' = ts
         /\ UNCHANGED resultVars
  /\ UNCHANGED <<convVars, toolVars, auxVars, inputVars, httpSent, netVars, ret>>

\* a return after the loop that leaves the final Done delta out
GeminiStreamFinishNoDone ==
  /\ provider = "gemini" /\ op = "Stream" /\ pc = "fin"
  /\ finalResponse' = [finalResponse EXCEPT !.Text = fullText]
  /\ ret' = ReturnOk(finalResponse')
  /\ pc' = "done"
  /\ UNCHANGED <<convVars, toolVars, auxVars, inputVars, httpSent, netVars, decoderVars,
                 fullText, deltas>>

\* after the loop: the final Done delta, the return
GeminiStreamFinish ==
  /\ provider = "gemini" /\ op = "Stream" /\ pc = "fin"
  /\ deltas' = Append(deltas, DoneDelta(finalResponse.FinishReason))
  /\ finalResponse' = [finalResponse EXCEPT !.Text = fullText]
  /\ ret' = ReturnOk(finalResponse')
  /\ pc' = "done"
  /\ UNCHANGED <<convVars, toolVars, auxVars, inputVars, httpSent, netVars, decoderVars, fullText>>

\* ------------------------------------------------------ Query wire texts
\* bytes of JSON text that matter to quoting
DQ == "\""
BS == "\\"

\* json.Marshal of a Go string: the quotes, and `"` and `\` escaped
EscapeByte(b) == IF b = DQ THEN <<BS, DQ>> ELSE IF b = BS THEN <<BS, BS>> ELSE <<b>>

JSONString(str) == <<DQ>> \o Concat([i \in 1..Len(str) |-> EscapeByte(str[i])]) \o <<DQ>>

RECURSIVE Unescape(_)
Unescape(inner) ==
  IF inner = << >> THEN << >>
  ELSE IF Head(inner) = BS /\ Len(inner) >= 2
    THEN <<inner[2]>> \o Unescape(SubSeq(inner, 3, Len(inner)))
  ELSE <<Head(inner)>> \o Unescape(Tail(inner))

\* json.Unmarshal of a raw value into a Go string field: an absent field
\* leaves "", a JSON string literal is unquoted, anything else is a type error
DecodeString(raw) ==
  IF raw = << >> THEN [ok |-> TRUE, str |-> << >>]
  ELSE IF Len(raw) >= 2 /\ raw[1] = DQ /\ raw[Len(raw)] = DQ
    THEN [ok |-> TRUE, str |-> Unescape(SubSeq(raw, 2, Len(raw) - 1))]
  ELSE [ok |-> FALSE, str |-> << >>]

\* tool-call arguments: a JSON object, and the JSON string that encodes it
ArgsObject == <<"{", DQ, "location", DQ, ":", " ", DQ, "Lausanne", DQ, "}">>
ArgsString == JSONString(ArgsObject)

\* the raw JSON of a `function` member: an object with the raw values of its
\* members name and arguments, or a value that is no object
FunctionObject(name, arguments) == [obj |-> TRUE, name |-> name, arguments |-> arguments]
FunctionNoObject == [obj |-> FALSE, name |-> << >>, arguments |-> << >>]

QHi == "{\"choices\":[{\"finish_reason\":\"stop\",\"message\":{\"role\":\"assistant\",\"content\":\"Hi there!\"}}]}"
QNoChoices == "{\"choices\":[]}"
QNilMessage == "{\"choices\":[{\"finish_reason\":\"stop\"}]}"
QBad == "{\"choices\":[{"
QType == "{\"choices\":7}"
QToolCall == "{\"choices\":[{\"finish_reason\":\"tool_calls\",\"message\":{\"role\":\"assistant\",\"content\":null,\"tool_calls\":[{\"id\":\"call_abc123\",\"type\":\"function\",\"function\":{\"name\":\"get_weather\",\"arguments\":\"{\\\"location\\\": \\\"Lausanne\\\"}\"}}]}}]}"
QTwoCalls == "{\"choices\":[{\"finish_reason\":\"tool_calls\",\"message\":{\"content\":null,\"tool_calls\":[{\"id\":\"call_abc123\",\"type\":\"function\",\"function\":{\"name\":\"get_weather\",\"arguments\":\"{\\\"location\\\": \\\"Lausanne\\\"}\"}},{\"id\":\"call_def456\",\"type\":\"function\",\"function\":{\"name\":\"get_time\",\"arguments\":\"{}\"}}]}},{\"finish_reason\":\"stop\",\"message\":{\"content\":\"Hi there!\"}}]}"
QSameID == "{\"choices\":[{\"finish_reason\":\"tool_calls\",\"message\":{\"content\":null,\"tool_calls\":[{\"id\":\"call_abc123\",\"type\":\"function\",\"function\":{\"name\":\"get_weather\",\"arguments\":\"{}\"}},{\"id\":\"call_abc123\",\"type\":\"function\",\"function\":{\"name\":\"get_time\",\"arguments\":\"{}\"}}]}}]}"
QNoID == "{\"choices\":[{\"finish_reason\":\"tool_calls\",\"message\":{\"content\":null,\"tool_calls\":[{\"type\":\"function\",\"function\":{\"name\":\"get_weather\",\"arguments\":\"{}\"}}]}}]}"
QBadFunction == "{\"choices\":[{\"finish_reason\":\"tool_calls\",\"message\":{\"content\":null,\"tool_calls\":[{\"id\":\"call_abc123\",\"type\":\"function\",\"function\":\"get_weather\"}]}}]}"
\* stands for the reply of a server that echoes the request's tool calls back
QEcho == "{\"choices\":[{\"finish_reason\":\"tool_calls\",\"message\":{\"content\":null,\"tool_calls\":<the tool_calls of the request's assistant message>}}]}"

OHi == "{\"message\":{\"role\":\"assistant\",\"content\":\"Hi there!\"},\"done\":true}"
OError == "{\"error\":\"model not found\"}"
OBad == "{\"message\":"
OToolCalls == "{\"message\":{\"role\":\"assistant\",\"content\":\"\",\"tool_calls\":[{\"function\":{\"name\":\"get_weather\",\"arguments\":{\"location\": \"Lausanne\"}}},{\"function\":{\"name\":\"get_time\",\"arguments\":{}}}]},\"done\":true}"
ONoMessage == "{\"done\":true}"
OFrameHello == "{\"message\":{\"role\":\"assistant\",\"content\":\"Hello,\"},\"done\":false}"
OFrameDone == "{\"message\":{\"role\":\"assistant\",\"content\":\" world!\"},\"done\":true}"

\* ToOpenAIChatMessages: the tool_calls of a message, as Go values
ToOpenAIToolCalls(toolCalls) ==
  [i \in 1..Len(toolCalls) |->
     [id |-> toolCalls[i].ID, type |-> "function",
      function |-> [name |-> toolCalls[i].Name, arguments |-> toolCalls[i].Arguments]]]

\* json.Marshal of those values: every string becomes a JSON string (ids are
\* kept whole: they hold no byte that quoting changes)
MarshalToolCalls(api) ==
  [i \in 1..Len(api) |->
     [id |-> api[i].id, type |-> api[i].type,
      function |-> FunctionObject(JSONString(api[i].function.name),
                                  JSONString(api[i].function.arguments))]]

\* the choice a wire text holds: finish_reason, and message (<< >>: absent)
WireChoice(finish, content, toolCalls) ==
  [finish |-> finish, message |-> <<[content |-> content, toolCalls |-> toolCalls]>>]

WireError(syntax) == [syntax |-> syntax, ok |-> FALSE, choices |-> << >>, usage |-> NoUsage]
WireOk(choices) == [syntax |-> TRUE, ok |-> TRUE, choices |-> choices, usage |-> NoUsage]

WeatherCall(id, arguments) ==
  [id |-> id, type |-> "function",
   function |-> FunctionObject(<<DQ, "get_weather", DQ>>, arguments)]
TimeCall(id) ==
  [id |-> id, type |-> "function",
   function |-> FunctionObject(<<DQ, "get_time", DQ>>, JSONString(<<"{", "}">>))]

\* json.Unmarshal(rawResp, &wire): syntax: the text is JSON; ok: it fits the struct
UnmarshalWire(text) ==
  IF text = QHi THEN WireOk(<<WireChoice("stop", <<"Hi there!">>, << >>)>>)
  ELSE IF text \in {QNoChoices, ErrorText} THEN WireOk(<< >>)
  ELSE IF text = QNilMessage THEN WireOk(<<[finish |-> "stop", message |-> << >>]>>)
  ELSE IF text = QType THEN WireError(TRUE)
  ELSE IF text = QToolCall
    THEN WireOk(<<WireChoice("tool_calls", << >>, <<WeatherCall("call_abc123", ArgsString)>>)>>)
  ELSE IF text = QTwoCalls
    THEN WireOk(<<WireChoice("tool_calls", << >>,
                             <<WeatherCall("call_abc123", ArgsString), TimeCall("call_def456")>>),
                  WireChoice("stop", <<"Hi there!">>, << >>)>>)
  ELSE IF text = QSameID
    THEN WireOk(<<WireChoice("tool_calls", << >>,
                             <<WeatherCall("call_abc123", JSONString(<<"{", "}">>)),
                               TimeCall("call_abc123")>>)>>)
  ELSE IF text = QNoID
    THEN WireOk(<<WireChoice("tool_calls", << >>, <<WeatherCall("", JSONString(<<"{", "}">>))>>)>>)
  ELSE IF text = QBadFunction
    THEN WireOk(<<WireChoice("tool_calls", << >>,
                             <<[id |-> "call_abc123", type |-> "function",
                                function |-> FunctionNoObject]>>)>>)
  ELSE IF text = QEcho
    THEN WireOk(<<WireChoice("tool_calls", << >>,
                             MarshalToolCalls(ToOpenAIToolCalls(reqToolCalls)))>>)
  ELSE WireError(FALSE)

\* json.Unmarshal(tc.Function, &fn): Name is decoded, Arguments keeps the raw bytes
UnmarshalFunction(function) ==
  IF ~function.obj THEN [ok |-> FALSE, Name |-> << >>, Arguments |-> << >>]
  ELSE LET n == DecodeString(function.name) IN
    [ok |-> n.ok, Name |-> n.str, Arguments |-> function.arguments]

\* a ToolCall that takes the first call's id for every call
ToolCallFirstID(toolCalls, i) ==
  [ID |-> toolCalls[1].id,
   Name |-> UnmarshalFunction(toolCalls[i].function).Name,
   Arguments |-> UnmarshalFunction(toolCalls[i].function).Arguments]

\* ToolCall{ID: tc.ID, Name: fn.Name, Arguments: fn.Arguments} for the i-th wire call
ToolCallOf(toolCalls, i) ==
  [ID |-> toolCalls[i].id,
   Name |-> UnmarshalFunction(toolCalls[i].function).Name,
   Arguments |-> UnmarshalFunction(toolCalls[i].function).Arguments]

\* unmarshalResponse(rawBody): the LLMResponse or the error
UnmarshalResponse(raw) ==
  LET wire == IF Len(raw) = 1 THEN UnmarshalWire(raw[1]) ELSE WireError(FALSE) IN
  IF ~wire.ok THEN ReturnErr("unmarshal wire response")
  ELSE IF Len(wire.choices) = 0 THEN ReturnErr("no choices in response")
  ELSE IF wire.choices[1].message = << >> THEN ReturnErr("first choice has nil message")
  ELSE
    LET firstMsg == wire.choices[1].message[1]
        tcs == firstMsg.toolCalls IN
    IF \E i \in 1..Len(tcs) : ~UnmarshalFunction(tcs[i].function).ok
    THEN ReturnErr("unmarshal tool function")
    ELSE ReturnOk([Text |-> firstMsg.content,
                   FinishReason |-> wire.choices[1].finish,
                   Usage |-> wire.usage,
                   ToolCalls |-> [i \in 1..Len(tcs) |-> ToolCallOf(tcs, i)]])

\* GeminiProvider.Query after HttpRequest: every part of candidates[0] is written
GeminiQueryResult(raw) ==
  LET r == UnmarshalGemini(raw[1]) IN
  ReturnOk([Text |-> IF Len(r.candidates) > 0 THEN Concat(r.candidates[1].parts) ELSE << >>,
            FinishReason |-> IF Len(r.candidates) > 0 THEN r.candidates[1].finish ELSE "",
            Usage |-> <<r.usage>>, ToolCalls |-> << >>])

\* json.Unmarshal(respBody, &ollamaResponse)
UnmarshalOllama(text) ==
  IF text = OHi
    THEN [ok |-> TRUE, error |-> "", content |-> <<"Hi there!">>, toolCalls |-> << >>]
  ELSE IF text = OError
    THEN [ok |-> TRUE, error |-> "model not found", content |-> << >>, toolCalls |-> << >>]
  ELSE IF text = ErrorText
    THEN [ok |-> TRUE, error |-> "bad request", content |-> << >>, toolCalls |-> << >>]
  ELSE IF text = ONoMessage
    THEN [ok |-> TRUE, error |-> "", content |-> << >>, toolCalls |-> << >>]
  ELSE IF text = OToolCalls
    THEN [ok |-> TRUE, error |-> "", content |-> << >>,
          toolCalls |-> <<[name |-> <<"get_weather">>, arguments |-> ArgsObject],
                          [name |-> <<"get_time">>, arguments |-> <<"{", "}">>]>>]
  ELSE [ok |-> FALSE, error |-> "", content |-> << >>, toolCalls |-> << >>]

\* the n-th value of uuid.NewString(): no two calls return the same value
NewString(n) == "uuid-" \o ToString(n)

\* an ID made once per response
OllamaToolCallIDPerResponse(n, i) == NewString(n)

\* the ID of the i-th tool call of a response, n IDs having been handed out before
OllamaToolCallID(n, i) == NewString(n + i - 1)

\* OllamaProvider.Query after HttpRequest
OllamaQueryResult(raw) ==
  LET r == UnmarshalOllama(raw[1]) IN
  IF r.error # "" THEN ReturnErr("ollama API error")
  ELSE ReturnOk([Text |-> r.content, FinishReason |-> "", Usage |-> NoUsage,
                 ToolCalls |-> [i \in 1..Len(r.toolCalls) |->
                                  [ID |-> OllamaToolCallID(uuidCount, i),
                                   Name |-> r.toolCalls[i].name,
                                   Arguments |-> r.toolCalls[i].arguments]]])

\* json.Unmarshal(respBody, &responsePayload) of HttpRequest succeeds: RespT is
\* `any` for the OpenAI-compatible adapter, so every JSON text passes
PayloadFits(pr, raw) ==
  /\ Len(raw) = 1
  /\ IF pr = "openai" THEN UnmarshalWire(raw[1]).syntax
     ELSE IF pr = "gemini" THEN UnmarshalGemini(raw[1]).ok
     ELSE UnmarshalOllama(raw[1]).ok

\* ------------------------------------------------------------------ Query
QueryStart ==
  /\ op = "Query" /\ pc = "start"
  /\ IF reqKind = "nil" THEN
       /\ ret' = ReturnErr("request cannot be nil")
       /\ pc' = "done" /\ UNCHANGED httpSent
     ELSE IF reqKind = "empty" /\ provider \in {"openai", "ollama"} THEN
       /\ ret' = ReturnErr("request must have at least one message")
       /\ pc' = "done" /\ UNCHANGED httpSent
     ELSE
       /\ pc' = "send" /\ httpSent' = TRUE /\ UNCHANGED ret
  /\ UNCHANGED <<convVars, toolVars, auxVars, inputVars, netVars, decoderVars, resultVars>>

\* what Query returns when HttpRequest returned (nil, rawResp, err): the Gemini
\* and Ollama adapters put the raw body in the message, the OpenAI one does not
QueryError(pr, e, rawResp) ==
  IF pr = "openai" THEN ReturnErr("http request failed")
  ELSE IF pr = "gemini" THEN ReturnErrBody("gemini request failed", rawResp)
  ELSE ReturnErrBody("ollama request failed", rawResp)

\* HttpRequest: client.Do
HttpRequestDo ==
  /\ op = "Query" /\ pc = "send"
  /\ IF ctxDone THEN
       /\ ret' = QueryError(provider, "failed to send request", << >>)
       /\ pc' = "done"
     ELSE
       /\ pc' = "readall" /\ UNCHANGED ret
  /\ UNCHANGED <<convVars, toolVars, auxVars, inputVars, httpSent, netVars, decoderVars, resultVars>>

\* HttpRequest: io.ReadAll, the status test, json.Unmarshal; then the adapter's mapping
HttpRequestRead ==
  /\ op = "Query" /\ pc = "readall"
  /\ IF avail < Len(body) THEN
       \* io.ReadAll fails: HttpRequest returns (nil, nil, err)
       /\ ret' = QueryError(provider, "failed to read response body", << >>)
       /\ ioErr' = TRUE /\ UNCHANGED <<pos, uuidCount>>
     ELSE
       /\ pos' = Len(body) /\ UNCHANGED ioErr
       /\ IF ~Is2xx(status) THEN
            ret' = QueryError(provider, "received non-2xx status code", body) /\ UNCHANGED uuidCount
          ELSE IF ~PayloadFits(provider, body) THEN
            ret' = QueryError(provider, "failed to unmarshal response", body) /\ UNCHANGED uuidCount
          ELSE IF provider = "openai" THEN
            ret' = UnmarshalResponse(body) /\ UNCHANGED uuidCount
          ELSE IF provider = "gemini" THEN
            ret' = GeminiQueryResult(body) /\ UNCHANGED uuidCount
          ELSE
            /\ ret' = OllamaQueryResult(body)
            /\ uuidCount' = IF UnmarshalOllama(body[1]).error # "" THEN uuidCount
                            ELSE uuidCount + Len(UnmarshalOllama(body[1]).toolCalls)
  /\ pc' = "done"
  /\ UNCHANGED <<convVars, auxVars, reqToolCalls, issued, calls, inputVars, httpSent, netVars, scErr,
                 tokenState, resultVars>>

\* ---------------------------------------------------- OllamaProvider.Stream
OllamaStream ==
  /\ provider = "ollama" /\ op = "Stream" /\ pc = "start"
  /\ ret' = ReturnErr("ollama streaming not implemented")
  /\ pc' = "done"
  /\ UNCHANGED <<convVars, toolVars, auxVars, inputVars, httpSent, netVars, decoderVars, resultVars>>

\* ------------------------------------------------------------ the context
\* How much of item a+1 of the body can sit in the reader's buffer when the
\* read that follows fails: any piece of an event-stream line; the beginning
\* of a JSON object (the one-byte tokens are there or not).
PartialMax(a) ==
  IF op # "Stream" \/ a >= Len(body) THEN 0
  ELSE IF provider = "openai" THEN Len(body[a + 1])
  ELSE IF body[a + 1] \in GeminiObjects THEN 1 ELSE 0

\* ctx is cancelled (or its deadline passes) while the call is in flight: the
\* transport fails the pending and every later read of the body
Cancel ==
  /\ pc \in {"send", "scan", "token", "more", "decode", "readall"}
  /\ ~ctxDone
  /\ ctxDone' = TRUE
  /\ IF pc = "send" THEN avail' = 0 /\ partial' = 0
     ELSE \E a \in pos..(pos + 1) :
            /\ a <= Len(body)
            /\ \E k \in 0..PartialMax(a) :
                 \* at "decode" More has seen the first byte of item pos+1
                 /\ pc = "decode" => (a > pos \/ k > 0)
                 /\ avail' = a /\ partial' = k
  /\ UNCHANGED <<convVars, toolVars, auxVars, inputVars, pc, httpSent, decoderVars, resultVars, ret>>

\* ------------------------------------------------------------------- Init
SeqsUpTo(S, n) == UNION {[1..k -> S] : k \in 0..n}

RECURSIVE Join(_, _)
Join(elems, sep) ==
  IF Len(elems) <= 1 THEN elems
  ELSE <<Head(elems)>> \o sep \o Join(Tail(elems), sep)

GeminiBodies ==
  {open \o Join(elems, sep) \o close :
     open \in {<<"[">>, << >>}, elems \in SeqsUpTo(GeminiObjects, MaxElems),
     sep \in {<<",">>, << >>}, close \in {<<"]">>, << >>}}

Bodies(pr, o) ==
  IF o = "Stream" THEN
    IF pr = "openai" THEN SeqsUpTo(Lines, MaxLines)
    ELSE IF pr = "gemini" THEN GeminiBodies
    ELSE {<< >>, <<OFrameHello, OFrameDone>>}
  ELSE
    IF pr = "openai"
      THEN {<<QHi>>, <<QNoChoices>>, <<QNilMessage>>, <<QBad>>, <<QType>>, <<QToolCall>>,
            <<QTwoCalls>>, <<QSameID>>, <<QNoID>>, <<QBadFunction>>, <<QEcho>>, << >>}
    ELSE IF pr = "gemini" THEN {<<g>> : g \in GeminiObjects} \cup {<< >>}
    ELSE {<<OHi>>, <<OError>>, <<OBad>>, <<OToolCalls>>, <<ONoMessage>>, << >>}

ErrorBody(pr, o) == IF pr = "openai" /\ o = "Stream" THEN <<<<ErrorText>>>> ELSE <<ErrorText>>

\* the tool calls of the assistant message a request carries: none; one whose
\* Arguments are a JSON object; one whose Arguments came out of unmarshalResponse
RequestToolCalls ==
  {<< >>,
   <<[ID |-> "call_abc123", Name |-> <<"get_weather">>, Arguments |-> ArgsObject]>>,
   <<[ID |-> "call_abc123", Name |-> <<"get_weather">>, Arguments |-> ArgsString],
     [ID |-> "call_def456", Name |-> <<"get_time">>, Arguments |-> <<"{", "}">>]>>}

\* the tool-calling flow: the response carried tool calls; the caller adds it
\* to the conversation, runs the tools and calls Query again with the same ctx
QueryAgain ==
  /\ op = "Query" /\ pc = "done" /\ calls < MaxCalls
  /\ ret.kind = "ok" /\ Len(ret.resp.ToolCalls) > 0
  /\ reqToolCalls' = ret.resp.ToolCalls
  /\ issued' = issued \cup {ret.resp.ToolCalls[i].ID : i \in 1..Len(ret.resp.ToolCalls)}
  /\ calls' = calls + 1
  /\ body' \in Bodies(provider, op)
  /\ avail' = Len(body') /\ partial' = 0 /\ pos' = 0
  /\ pc' = "start" /\ httpSent' = FALSE /\ ioErr' = FALSE /\ ret' = NotReturned
  /\ UNCHANGED <<convVars, auxVars, uuidCount, provider, op, reqKind, cbNil, status, ctxDone, scErr,
                 tokenState, resultVars>>

AdapterInit ==
  /\ provider \in {"openai", "gemini", "ollama"}
  /\ op \in {"Query", "Stream"}
  /\ \/ /\ reqKind = "ok" /\ cbNil = FALSE /\ status = 200
        /\ body \in Bodies(provider, op)
        /\ reqToolCalls \in (IF op = "Query" THEN RequestToolCalls ELSE {<< >>})
     \/ /\ reqKind \in {"nil", "empty", "ok"} /\ cbNil \in BOOLEAN
        /\ status \in {200, 204, 500}
        /\ body \in {<< >>, ErrorBody(provider, op)}
        /\ reqToolCalls = << >>
  /\ pc = "start"
  /\ httpSent = FALSE
  /\ ctxDone = FALSE
  /\ avail = Len(body)
  /\ partial = 0
  /\ pos = 0
  /\ scErr = "none"
  /\ ioErr = FALSE
  /\ tokenState = "top"
  /\ fullText = << >>
  /\ finalResponse = NoResp
  /\ deltas = << >>
  /\ ret = NotReturned
  /\ uuidCount = 0
  /\ issued = {}
  /\ calls = 1

Next ==
  \/ OpenAIStreamStart
  \/ OpenAIStreamDo
  \/ OpenAIScanLine
  \/ OpenAIScanEnd
  \/ OpenAIStreamFinish
  \/ GeminiStreamStart
  \/ GeminiStreamDo
  \/ GeminiOpenToken
  \/ GeminiMore
  \/ GeminiDecode
  \/ GeminiStreamFinish
  \/ OllamaStream
  \/ QueryStart
  \/ HttpRequestDo
  \/ HttpRequestRead
  \/ QueryAgain
  \/ Cancel


\* =========================================================== Conversation
Procs == 1..NProcs

RoleSystem == "system"
RoleUser == "user"
RoleAssistant == "assistant"
RoleTool == "tool"

NilSlice == 0
Refs == {1}

LLMMessage(role, content, toolCallID, toolCalls) ==
  [Role |-> role, Content |-> content, Name |-> "", ToolCallID |-> toolCallID,
   ToolCalls |-> toolCalls]

\* the zero LLMMessage
NoMessage == LLMMessage("", << >>, "", NilSlice)

TestPrompt == <<"You are a test assistant.">>

\* a constructor that takes any prompt, the empty one included
NewConversationAnyPrompt(systemPrompt) ==
  [ok |-> TRUE,
   Messages |-> <<LLMMessage(RoleSystem, systemPrompt, "", NilSlice)>>,
   SystemPrompt |-> systemPrompt]

\* NewConversation(systemPrompt): the Conversation, or the error
NewConversation(systemPrompt) ==
  IF systemPrompt = << >>
  THEN [ok |-> FALSE, Messages |-> << >>, SystemPrompt |-> << >>]
  ELSE [ok |-> TRUE,
        Messages |-> <<LLMMessage(RoleSystem, systemPrompt, "", NilSlice)>>,
        SystemPrompt |-> systemPrompt]

\* the arguments the callers pass
UserContents == {<< >>, <<"Hello, world!">>}
NilResponse == [nil |-> TRUE, Text |-> << >>, ToolCalls |-> NilSlice]
Responses ==
  {NilResponse,
   [nil |-> FALSE, Text |-> <<"Hi there!">>, ToolCalls |-> NilSlice],
   [nil |-> FALSE, Text |-> << >>, ToolCalls |-> 1]}
ToolResults ==
  {[id |-> "tool-123", result |-> <<"{\"status\": \"ok\"}">>],
   [id |-> "", result |-> << >>]}

\* a mutex that lets every caller in
CanLockAlways(m) == TRUE

\* sync.RWMutex: Lock is granted when nobody holds the mutex
CanLock(m) == m.w = 0 /\ m.r = {}

\* sync.RWMutex: RLock is granted when no writer holds the mutex
CanRLock(m) == m.w = 0

\* a validation that lets the empty content through
ContentAccepted(content) == TRUE

\* AddUserMessage: `if content == ""` is the error
ContentOk(content) == content # << >>

\* the model stops appending after MaxAppends appends; main of cmd/toolCalling
\* is given room for the assistant message and a response's tool results too
AppendLimit == IF fpc = "off" THEN MaxAppends ELSE MaxAppends + 2

RoomToAppend == Len(appended) + Cardinality({q \in Procs : cpc[q] = "w"}) < AppendLimit

\* c.mu.Lock(), and append's read of c.Messages
BeginAppend(p, m) ==
  /\ CanLock(mu) /\ RoomToAppend
  /\ mu' = [mu EXCEPT !.w = p]
  /\ cpc' = [cpc EXCEPT ![p] = "w"]
  /\ carg' = [carg EXCEPT ![p] = m]
  /\ clocal' = [clocal EXCEPT ![p] = Messages]
  /\ res' = [res EXCEPT ![p] = "none"]
  /\ UNCHANGED <<Messages, heap, copy, appended>>

\* Conversation.AddUserMessage(content), up to the append
AddUserMessage(p, content) ==
  /\ cpc[p] = "idle"
  /\ IF ~ContentOk(content) THEN
       /\ res' = [res EXCEPT ![p] = "err"]
       /\ UNCHANGED <<Messages, heap, mu, cpc, carg, clocal, copy, appended>>
     ELSE BeginAppend(p, LLMMessage(RoleUser, content, "", NilSlice))
  /\ UNCHANGED <<vars, toolVars, auxVars>>

\* Conversation.AddAssistantResponse(resp), up to the append
AddAssistantResponse(p, resp) ==
  /\ cpc[p] = "idle"
  /\ IF resp.nil THEN
       /\ res' = [res EXCEPT ![p] = "ok"]
       /\ UNCHANGED <<Messages, heap, mu, cpc, carg, clocal, copy, appended>>
     ELSE BeginAppend(p, LLMMessage(RoleAssistant, resp.Text, "", resp.ToolCalls))
  /\ UNCHANGED <<vars, toolVars, auxVars>>

\* an AddToolResultMessage that forgets the call id
AddToolResultMessageNoID(p, toolCallID, result) ==
  /\ cpc[p] = "idle"
  /\ BeginAppend(p, LLMMessage(RoleTool, result, "", NilSlice))
  /\ UNCHANGED <<vars, toolVars, auxVars>>

\* Conversation.AddToolResultMessage(toolCallID, result), up to the append:
\* an empty id or result is logged, and appended all the same
AddToolResultMessage(p, toolCallID, result) ==
  /\ cpc[p] = "idle"
  /\ BeginAppend(p, LLMMessage(RoleTool, result, toolCallID, NilSlice))
  /\ UNCHANGED <<vars, toolVars, auxVars>>

\* c.Messages = append(c.Messages, m), and the deferred c.mu.Unlock()
FinishAppend(p) ==
  /\ cpc[p] = "w"
  /\ Messages' = Append(clocal[p], carg[p])
  /\ appended' = Append(appended, carg[p])
  /\ mu' = [mu EXCEPT !.w = IF @ = p THEN 0 ELSE @]
  /\ cpc' = [cpc EXCEPT ![p] = "idle"]
  /\ res' = [res EXCEPT ![p] = "ok"]
  /\ carg' = [carg EXCEPT ![p] = NoMessage]
  /\ clocal' = [clocal EXCEPT ![p] = << >>]
  /\ UNCHANGED <<heap, copy>>
  /\ UNCHANGED <<vars, toolVars, auxVars>>

\* Conversation.MessagesCopy: c.mu.RLock()
MessagesCopyBegin(p) ==
  /\ cpc[p] = "idle"
  /\ CanRLock(mu)
  /\ mu' = [mu EXCEPT !.r = @ \cup {p}]
  /\ cpc' = [cpc EXCEPT ![p] = "r"]
  /\ res' = [res EXCEPT ![p] = "none"]
  /\ UNCHANGED <<Messages, heap, carg, clocal, copy, appended>>
  /\ UNCHANGED <<vars, toolVars, auxVars>>

\* slices.Clone(c.Messages): a new slice holding the elements by value; a
\* []ToolCall inside an element still points to the same backing array
SlicesClone(msgs) == msgs

\* Conversation.MessagesCopy: the clone, the deferred c.mu.RUnlock(), the return
MessagesCopyEnd(p) ==
  /\ cpc[p] = "r"
  /\ copy' = [copy EXCEPT ![p] = SlicesClone(Messages)]
  /\ mu' = [mu EXCEPT !.r = @ \ {p}]
  /\ cpc' = [cpc EXCEPT ![p] = "idle"]
  /\ res' = [res EXCEPT ![p] = "ok"]
  /\ UNCHANGED <<Messages, heap, carg, clocal, appended>>
  /\ UNCHANGED <<vars, toolVars, auxVars>>

\* ---- what a caller can do to the slice MessagesCopy gave it
Modified == <<"modified">>

\* copied[i] = LLMMessage{...}
ReplaceCopyElement(p, i) ==
  /\ cpc[p] = "idle" /\ i \in 1..Len(copy[p])
  /\ copy' = [copy EXCEPT ![p][i] = LLMMessage(RoleUser, Modified, "", NilSlice)]
  /\ UNCHANGED <<Messages, heap, mu, cpc, carg, clocal, res, appended>>
  /\ UNCHANGED <<vars, toolVars, auxVars>>

\* copied[i].Content = "modified"
SetCopyContent(p, i) ==
  /\ cpc[p] = "idle" /\ i \in 1..Len(copy[p])
  /\ copy' = [copy EXCEPT ![p][i].Content = Modified]
  /\ UNCHANGED <<Messages, heap, mu, cpc, carg, clocal, res, appended>>
  /\ UNCHANGED <<vars, toolVars, auxVars>>

\* copied[i].ToolCalls[j].Name = "modified"
SetCopyToolCallName(p, i, j) ==
  /\ cpc[p] = "idle" /\ i \in 1..Len(copy[p])
  /\ copy[p][i].ToolCalls # NilSlice
  /\ j \in 1..Len(heap[copy[p][i].ToolCalls])
  /\ heap' = [heap EXCEPT ![copy[p][i].ToolCalls][j].Name = "modified"]
  /\ UNCHANGED <<Messages, mu, cpc, carg, clocal, copy, res, appended>>
  /\ UNCHANGED <<vars, toolVars, auxVars>>

ChangeCopy(p) ==
  \/ \E i \in 1..(MaxAppends + 1) : ReplaceCopyElement(p, i)
  \/ \E i \in 1..(MaxAppends + 1) : SetCopyContent(p, i)
  \/ \E i \in 1..(MaxAppends + 1), j \in 1..1 : SetCopyToolCallName(p, i, j)

\* the conversation as a reader of c.Messages sees it: every message with the
\* tool calls its ToolCalls slice points to
Contents(msgs) ==
  [i \in 1..Len(msgs) |->
     [msgs[i] EXCEPT !.ToolCalls = IF @ = NilSlice THEN << >> ELSE heap[@]]]

ConvInit ==
  /\ Messages = NewConversation(TestPrompt).Messages
  /\ heap = [r \in Refs |->
               <<[ID |-> "call-1", Name |-> "get_weather", Arguments |-> "{\"city\":\"Paris\"}"]>>]
  /\ mu = [w |-> 0, r |-> {}]
  /\ cpc = [p \in Procs |-> "idle"]
  /\ carg = [p \in Procs |-> NoMessage]
  /\ clocal = [p \in Procs |-> << >>]
  /\ copy = [p \in Procs |-> << >>]
  /\ res = [p \in Procs |-> "none"]
  /\ appended = << >>

\* ---- the Conversation is yet to be made
\* the prompts the callers pass
Prompts == {<< >>, TestPrompt, <<"You are a helpful weather assistant.">>}

\* no Conversation exists: every goroutine is at "new"
ConvNone ==
  /\ Messages = << >>
  /\ heap = [r \in Refs |->
               <<[ID |-> "call-1", Name |-> "get_weather", Arguments |-> "{\"city\":\"Paris\"}"]>>]
  /\ mu = [w |-> 0, r |-> {}]
  /\ cpc = [p \in Procs |-> "new"]
  /\ carg = [p \in Procs |-> NoMessage]
  /\ clocal = [p \in Procs |-> << >>]
  /\ copy = [p \in Procs |-> << >>]
  /\ res = [p \in Procs |-> "none"]
  /\ appended = << >>

\* convo, err := NewConversation(systemPrompt), by goroutine 1; on success the
\* Conversation is handed to every goroutine
NewConversationCall(systemPrompt) ==
  /\ \A p \in Procs : cpc[p] = "new"
  /\ LET c == NewConversation(systemPrompt) IN
       IF ~c.ok THEN
         /\ res' = [res EXCEPT ![1] = "err"]
         /\ UNCHANGED <<Messages, cpc>>
       ELSE
         /\ Messages' = c.Messages
         /\ cpc' = [p \in Procs |-> "idle"]
         /\ res' = [res EXCEPT ![1] = "ok"]
  /\ UNCHANGED <<heap, mu, carg, clocal, copy, appended>>
  /\ UNCHANGED <<vars, toolVars, auxVars>>

\* no adapter call is made
AdapterIdle ==
  /\ provider = "none" /\ op = "none" /\ reqKind = "ok" /\ cbNil = FALSE
  /\ status = 200 /\ body = << >> /\ pc = "idle" /\ httpSent = FALSE
  /\ ctxDone = FALSE /\ avail = 0 /\ partial = 0 /\ pos = 0 /\ scErr = "none"
  /\ ioErr = FALSE /\ tokenState = "top" /\ fullText = << >>
  /\ finalResponse = NoResp /\ deltas = << >> /\ ret = NotReturned
  /\ reqToolCalls = << >> /\ uuidCount = 0 /\ issued = {} /\ calls = 0

\* ---------------------------------------------------------- specifications
\* one Query or Stream call on one adapter
Init == AdapterInit /\ ConvInit /\ AuxIdle

Spec == Init /\ [][Next]_allVars

\* the same call, run by a goroutine that is never stopped for ever
SpecLive == Init /\ [][Next]_allVars /\ WF_allVars(Next)

\* goroutines calling the methods of one Conversation concurrently
InitConv == AdapterIdle /\ ConvInit /\ AuxIdle

NextConv ==
  \E p \in Procs :
    \/ \E content \in UserContents : AddUserMessage(p, content)
    \/ \E resp \in Responses : AddAssistantResponse(p, resp)
    \/ \E t \in ToolResults : AddToolResultMessage(p, t.id, t.result)
    \/ FinishAppend(p)
    \/ MessagesCopyBegin(p)
    \/ MessagesCopyEnd(p)

SpecConv == InitConv /\ [][NextConv]_allVars

\* one caller that also changes the slices MessagesCopy gave it
NextCopy ==
  \/ \E content \in UserContents : AddUserMessage(1, content)
  \/ \E resp \in Responses : AddAssistantResponse(1, resp)
  \/ \E t \in ToolResults : AddToolResultMessage(1, t.id, t.result)
  \/ FinishAppend(1)
  \/ MessagesCopyBegin(1)
  \/ MessagesCopyEnd(1)
  \/ ChangeCopy(1)

SpecCopy == InitConv /\ [][NextCopy]_allVars

\* goroutine 1 makes a Conversation, then calls its methods one after another
InitNew == AdapterIdle /\ ConvNone /\ AuxIdle

NextNew ==
  \/ \E systemPrompt \in Prompts : NewConversationCall(systemPrompt)
  \/ \E content \in UserContents : AddUserMessage(1, content)
  \/ \E resp \in Responses : AddAssistantResponse(1, resp)
  \/ \E t \in ToolResults : AddToolResultMessage(1, t.id, t.result)
  \/ FinishAppend(1)
  \/ MessagesCopyBegin(1)
  \/ MessagesCopyEnd(1)

SpecNew == InitNew /\ [][NextNew]_allVars

\* ------------------------------------------------- the Gemini payload
\* ToGeminiContents(msgs): the system messages are left out, every other
\* message goes out with its own role
ToGeminiContents(msgs) ==
  LET keep == SelectSeq(msgs, LAMBDA m : m.Role # RoleSystem) IN
  [i \in 1..Len(keep) |->
     [role |-> keep[i].Role, parts |-> <<[text |-> keep[i].Content]>>]]

\* FirstSystemMessage(msgs)
FirstSystemMessage(msgs) ==
  LET sys == SelectSeq(msgs, LAMBDA m : m.Role = RoleSystem /\ m.Content # << >>) IN
  IF sys = << >> THEN << >> ELSE sys[1].Content

\* the messages a request can hold
RequestMessages ==
  {LLMMessage(r, c, "", NilSlice) : r \in {RoleSystem, RoleUser, RoleAssistant}, c \in UserContents}
    \cup {LLMMessage(RoleTool, <<"{\"status\": \"ok\"}">>, "tool-123", NilSlice)}

\* payload := geminiRequest{Contents: ToGeminiContents(req.Messages), ...} and
\* the SystemInstruction, as Query and Stream build it
BuildGeminiPayload ==
  /\ ~payload.built
  /\ payload' = [built |-> TRUE,
                 contents |-> ToGeminiContents(reqMessages),
                 systemInstruction |-> FirstSystemMessage(reqMessages)]
  /\ UNCHANGED <<vars, convVars, toolVars, reqMessages, received, chClosed, consumer, fpc, ti>>

InitPayload ==
  /\ AdapterIdle /\ ConvInit
  /\ reqMessages \in SeqsUpTo(RequestMessages, MaxMsgs) /\ payload = NoPayload
  /\ received = << >> /\ chClosed = 0 /\ consumer = "off"
  /\ fpc = "off" /\ ti = 0

NextPayload == BuildGeminiPayload

\* the Gemini adapter building the payload of one request
SpecPayload == InitPayload /\ [][NextPayload]_allVars

\* ------------------------------------------------------------ StreamQuery
\* a channel with room for every value: a send never waits
SendDoneBuffered(recv, ds) == TRUE

\* deltaChan := make(chan Delta) has no buffer: `deltaChan <- delta` in onDelta
\* returns when the consumer has received the value, so the producer goes on
\* when every delta it emitted has been received
SendDone(recv, ds) == Len(recv) = Len(ds)

\* the frames of the event-stream bodies StreamQuery is run on
SQLines == {LHello, LWorld, LDone, LBad}

StreamQueryBodies(pr) ==
  IF pr = "openai" THEN SeqsUpTo(SQLines, MaxLines) ELSE Bodies(pr, "Stream")

\* StreamQuery(ctx, provider, req): the channel is made, the goroutine that
\* runs provider.Stream(ctx, req, onDelta) is started, the channel is returned
\* and the caller starts receiving from it
StreamQueryInit ==
  /\ provider \in {"openai", "gemini", "ollama"}
  /\ op = "Stream" /\ cbNil = FALSE
  /\ \/ /\ reqKind = "ok" /\ status = 200 /\ body \in StreamQueryBodies(provider)
     \/ /\ reqKind \in {"nil", "empty"} /\ status \in {200, 500}
        /\ body \in {<< >>, ErrorBody(provider, op)}
  /\ reqToolCalls = << >>
  /\ pc = "start" /\ httpSent = FALSE /\ ctxDone = FALSE
  /\ avail = Len(body) /\ partial = 0 /\ pos = 0
  /\ scErr = "none" /\ ioErr = FALSE /\ tokenState = "top"
  /\ fullText = << >> /\ finalResponse = NoResp /\ deltas = << >> /\ ret = NotReturned
  /\ uuidCount = 0 /\ issued = {} /\ calls = 1
  /\ reqMessages = << >> /\ payload = NoPayload
  /\ received = << >> /\ chClosed = 0 /\ consumer = "recv"
  /\ fpc = "off" /\ ti = 0

\* a step of provider.Stream in the producer goroutine: it is taken when no
\* send is waiting in onDelta
ProducerStep ==
  \/ SendDone(received, deltas) /\ OpenAIStreamStart
  \/ SendDone(received, deltas) /\ OpenAIStreamDo
  \/ SendDone(received, deltas) /\ OpenAIScanLine
  \/ SendDone(received, deltas) /\ OpenAIScanEnd
  \/ SendDone(received, deltas) /\ OpenAIStreamFinish
  \/ SendDone(received, deltas) /\ GeminiStreamStart
  \/ SendDone(received, deltas) /\ GeminiStreamDo
  \/ SendDone(received, deltas) /\ GeminiOpenToken
  \/ SendDone(received, deltas) /\ GeminiMore
  \/ SendDone(received, deltas) /\ GeminiDecode
  \/ SendDone(received, deltas) /\ GeminiStreamFinish
  \/ SendDone(received, deltas) /\ OllamaStream

\* the deferred close(deltaChan): provider.Stream has returned
CloseChan ==
  /\ pc = "done" /\ SendDone(received, deltas) /\ chClosed = 0
  /\ chClosed' = chClosed + 1
  /\ UNCHANGED <<vars, convVars, toolVars, reqMessages, payload, received, consumer, fpc, ti>>

\* the consumer's `delta := <-deltaChan` meets the producer's send
Receive ==
  /\ consumer = "recv" /\ chClosed = 0 /\ Len(received) < Len(deltas)
  /\ received' = Append(received, deltas[Len(received) + 1])
  /\ UNCHANGED <<vars, convVars, toolVars, reqMessages, payload, chClosed, consumer, fpc, ti>>

\* the consumer's receive finds the channel closed: its loop ends
ReceiveClosed ==
  /\ consumer = "recv" /\ chClosed > 0
  /\ consumer' = "end"
  /\ UNCHANGED <<vars, convVars, toolVars, reqMessages, payload, received, chClosed, fpc, ti>>

\* the consumer leaves its loop before the channel is closed
ConsumerStops ==
  /\ consumer = "recv" /\ chClosed = 0
  /\ consumer' = "stopped"
  /\ UNCHANGED <<vars, convVars, toolVars, reqMessages, payload, received, chClosed, fpc, ti>>

InitSQ == StreamQueryInit /\ ConvInit

NextSQ ==
  \/ ProducerStep
  \/ CloseChan
  \/ Receive
  \/ ReceiveClosed
  \/ ConsumerStops
  \/ Cancel

\* StreamQuery: the producer goroutine and the consumer of the channel
SpecSQ == InitSQ /\ [][NextSQ]_allVars

\* the same, with goroutines that run whenever they can: the producer is not
\* stopped for ever, nor is a consumer that is in its receive loop
SpecSQLive ==
  /\ InitSQ /\ [][NextSQ]_allVars
  /\ WF_allVars(ProducerStep) /\ WF_allVars(CloseChan)
  /\ WF_allVars(Receive) /\ WF_allVars(ReceiveClosed)

\* ------------------------------------------------- cmd/toolCalling: main
\* a loop that hands every iteration the first tool call
RangeFirst(toolCalls, i) == toolCalls[1]

\* `for _, tc := range resp.ToolCalls`: the tool call of iteration i
RangeToolCalls(toolCalls, i) == toolCalls[i]

\* what tool.Execute hands back to main: the tool's JSON, or the error as JSON
ToolOutputs == {<<"{\"summary\": \"You better look out your window\"}">>,
                <<"{\"error\": \"invalid arguments\"}">>}

\* the statements of main between two calls: the position moves on and the
\* last call's result is consumed
FlowGoto(next) ==
  /\ fpc' = next
  /\ res' = [res EXCEPT ![1] = "none"]
  /\ UNCHANGED <<vars, toolVars, Messages, mu, cpc, carg, clocal, copy, appended,
                 payload, received, chClosed, consumer>>

AtCall(at) == fpc = at /\ cpc[1] \in {"new", "idle"} /\ res[1] = "none"
AfterCall(at) == fpc = at /\ cpc[1] \in {"new", "idle"} /\ res[1] # "none"

\* convo, err := llm.NewConversation(*systemRoleFlag)
FlowNewConversation == AtCall("new") /\ \E systemPrompt \in Prompts : NewConversationCall(systemPrompt)

\* check(err, "starting conversation", l)
FlowCheckNew ==
  /\ AfterCall("new")
  /\ FlowGoto(IF res[1] = "err" THEN "exit" ELSE "user")
  /\ UNCHANGED <<heap, reqMessages, ti>>

\* err = convo.AddUserMessage(*promptFlag)
FlowAddUserMessage == AtCall("user") /\ \E content \in UserContents : AddUserMessage(1, content)

\* check(err, "adding user message", l)
FlowCheckUser ==
  /\ AfterCall("user")
  /\ FlowGoto(IF res[1] = "err" THEN "exit" ELSE "copy1")
  /\ UNCHANGED <<heap, reqMessages, ti>>

\* convo.MessagesCopy(), for req and for req2
FlowMessagesCopy == (AtCall("copy1") \/ AtCall("copy2")) /\ MessagesCopyBegin(1)

\* req := &llm.LLMRequest{Messages: <the copy>, ...}
FlowBuildRequest ==
  /\ AfterCall("copy1") \/ AfterCall("copy2")
  /\ reqMessages' = copy[1]
  /\ FlowGoto(IF fpc = "copy1" THEN "query1" ELSE "query2")
  /\ UNCHANGED <<heap, ti>>

\* resp, err := provider.Query(ctx, req) and resp2, err := provider.Query(ctx, req2)
FlowQuery ==
  \/ fpc \in {"query1", "query2"} /\ QueryStart
  \/ fpc \in {"query1", "query2"} /\ HttpRequestDo
  \/ fpc \in {"query1", "query2"} /\ HttpRequestRead

\* ctx's 30 s run out while a Query is in flight
FlowTimeout == fpc \in {"query1", "query2"} /\ Cancel

\* check(err, "first query", l); resp.ToolCalls is the slice the response holds
FlowCheckQuery ==
  /\ fpc = "query1" /\ pc = "done" /\ calls = 1
  /\ FlowGoto(IF ret.kind = "err" THEN "exit" ELSE "assistant")
  /\ heap' = [heap EXCEPT ![1] = ret.resp.ToolCalls]
  /\ UNCHANGED <<reqMessages, ti>>

\* convo.AddAssistantResponse(resp)
FlowAddAssistantResponse ==
  /\ AtCall("assistant")
  /\ AddAssistantResponse(1, [nil |-> FALSE, Text |-> ret.resp.Text,
                              ToolCalls |-> IF ret.resp.ToolCalls = << >> THEN NilSlice ELSE 1])

\* if len(resp.ToolCalls) > 0 { for ... } else { ... }
FlowIfToolCalls ==
  /\ AfterCall("assistant")
  /\ FlowGoto(IF Len(ret.resp.ToolCalls) > 0 THEN "tools" ELSE "end")
  /\ ti' = 0
  /\ UNCHANGED <<heap, reqMessages>>

\* the loop body: result, err := tool.Execute(tc.Arguments) and
\* convo.AddToolResultMessage(tc.ID, result)
FlowAddToolResult ==
  /\ AtCall("tools") /\ ti < Len(ret.resp.ToolCalls)
  /\ \E result \in ToolOutputs :
       AddToolResultMessage(1, RangeToolCalls(ret.resp.ToolCalls, ti + 1).ID, result)

\* the next iteration, or the end of the loop
FlowNextToolCall ==
  /\ AfterCall("tools")
  /\ ti' = ti + 1
  /\ FlowGoto(IF ti + 1 < Len(ret.resp.ToolCalls) THEN "tools" ELSE "copy2")
  /\ UNCHANGED <<heap, reqMessages>>

\* the second Query is made with the request built from the conversation
FlowQueryAgain == fpc = "query2" /\ calls = 1 /\ QueryAgain

\* check(err, "second query", l) and the end of main
FlowEnd ==
  /\ fpc = "query2" /\ pc = "done" /\ calls = 2
  /\ FlowGoto(IF ret.kind = "err" THEN "exit" ELSE "end")
  /\ UNCHANGED <<heap, reqMessages, ti>>

InitFlow ==
  /\ provider \in {"openai", "gemini", "ollama"}
  /\ op = "Query" /\ reqKind = "ok" /\ cbNil = FALSE
  /\ status \in {200, 500}
  /\ body \in Bodies(provider, op)
  /\ reqToolCalls = << >>
  /\ pc = "start" /\ httpSent = FALSE /\ ctxDone = FALSE
  /\ avail = Len(body) /\ partial = 0 /\ pos = 0
  /\ scErr = "none" /\ ioErr = FALSE /\ tokenState = "top"
  /\ fullText = << >> /\ finalResponse = NoResp /\ deltas = << >> /\ ret = NotReturned
  /\ uuidCount = 0 /\ issued = {} /\ calls = 1
  /\ ConvNone
  /\ reqMessages = << >> /\ payload = NoPayload
  /\ received = << >> /\ chClosed = 0 /\ consumer = "off"
  /\ fpc = "new" /\ ti = 0

NextFlow ==
  \/ FlowNewConversation
  \/ FlowCheckNew
  \/ FlowAddUserMessage
  \/ FlowCheckUser
  \/ FlowMessagesCopy
  \/ MessagesCopyEnd(1)
  \/ FlowBuildRequest
  \/ FlowQuery
  \/ FlowTimeout
  \/ FlowCheckQuery
  \/ FlowAddAssistantResponse
  \/ FlowIfToolCalls
  \/ FlowAddToolResult
  \/ FinishAppend(1)
  \/ FlowNextToolCall
  \/ FlowQueryAgain
  \/ FlowEnd

\* main of cmd/toolCalling: one conversation, two Query calls
SpecFlow == InitFlow /\ [][NextFlow]_allVars

\* ======================================================= stream properties
DeltaTexts == [i \in 1..Len(deltas) |-> deltas[i].Text]
DoneCount == Cardinality({i \in 1..Len(deltas) : deltas[i].Done})
Returned == pc = "done"
IsStream(pr) == provider = pr /\ op = "Stream"

\* C1: when the event-stream body ends with the frame `data: [DONE]` and
\* openAICompatibleProvider.Stream returns without error, onDelta was called
\* with Done==true exactly once and the texts of the deltas, concatenated in
\* call order, are the Text of the returned response.
C1_DoneOnceAndTextIsConcat ==
  (IsStream("openai") /\ Returned /\ ret.kind = "ok"
     /\ body # << >> /\ body[Len(body)] = LDone)
    => (DoneCount = 1 /\ Concat(DeltaTexts) = ret.resp.Text)

C1_Witness ==
  /\ IsStream("openai") /\ Returned /\ ret.kind = "ok"
  /\ body # << >> /\ body[Len(body)] = LDone
  /\ Len(deltas) = 3 /\ ret.resp.Text = <<"Hello,", " world!">>

\* C2: in every Stream call of every adapter a delta with Done==true is the
\* last one: no call of onDelta follows it.
C2_DoneIsTerminal ==
  \A i \in 1..Len(deltas) : deltas[i].Done => i = Len(deltas)

C2_Witness ==
  /\ IsStream("gemini") /\ Returned
  /\ Len(deltas) >= 2 /\ deltas[Len(deltas)].Done
  /\ deltas[Len(deltas)].FinishReason = "STOP"

\* what the scenario of C3 expects of the call
HelloWorldOutcome ==
  /\ ret.kind = "ok"
  /\ deltas = << [Text |-> <<"Hello,">>, Done |-> FALSE, FinishReason |-> ""],
                 [Text |-> <<" world!">>, Done |-> FALSE, FinishReason |-> ""],
                 [Text |-> << >>, Done |-> TRUE, FinishReason |-> "stop"] >>
  /\ ret.resp.Text = <<"Hello,", " world!">>

\* C3 as stated: the three frames written without a space after `data:` drive
\* the deltas "Hello,", " world!", Done("stop") and the Text "Hello, world!".
C3_AsStated ==
  (IsStream("openai") /\ Returned /\ ~ctxDone /\ reqKind = "ok" /\ ~cbNil
     /\ status = 200 /\ body = <<LHelloNS, LWorldNS, LDoneNS>>)
    => HelloWorldOutcome

\* C3 (amended): the three frames written with the prefix `data: ` (a space
\* after the colon): `data: {"choices":[{"delta":{"content":"Hello,"}}]}`,
\* `data: {"choices":[{"delta":{"content":" world!"},"finish_reason":"stop"}]}`
\* and `data: [DONE]` drive the deltas "Hello,", " world!", then a Done delta
\* with FinishReason "stop", and the returned Text is "Hello, world!".
C3_HelloWorldScenario ==
  (IsStream("openai") /\ Returned /\ ~ctxDone /\ reqKind = "ok" /\ ~cbNil
     /\ status = 200 /\ body = <<LHello, LWorld, LDone>>)
    => HelloWorldOutcome

C3_Witness ==
  /\ IsStream("openai") /\ Returned /\ ~ctxDone
  /\ body = <<LHello, LWorld, LDone>> /\ HelloWorldOutcome

\* a Gemini body that is one JSON array of well-formed response objects
GeminiElems(b) == [i \in 1..((Len(b) - 1) \div 2) |-> b[2 * i]]
WellFormedArray(b) ==
  /\ Len(b) >= 3 /\ Len(b) % 2 = 1
  /\ b[1] = "[" /\ b[Len(b)] = "]"
  /\ \A i \in 1..Len(b) :
       /\ (i % 2 = 0) => UnmarshalGemini(b[i]).ok
       /\ (i % 2 = 1 /\ 1 < i /\ i < Len(b)) => b[i] = ","

\* every text part of candidates[0] of every object, in order
AllPartsText(b) ==
  LET es == GeminiElems(b) IN
  Concat([i \in 1..Len(es) |->
            LET r == UnmarshalGemini(es[i]) IN
            IF Len(r.candidates) > 0 THEN Concat(r.candidates[1].parts) ELSE << >>])

\* C4: for a body that is one JSON array of two or more well-formed objects,
\* GeminiProvider.Stream returns the concatenation of every text part of
\* candidates[0] of every object, which is also the concatenation of the
\* texts of the deltas.
C4_GeminiLossless ==
  (IsStream("gemini") /\ Returned /\ ~ctxDone /\ reqKind = "ok" /\ ~cbNil
     /\ status = 200 /\ WellFormedArray(body) /\ Len(GeminiElems(body)) >= 2)
    => (/\ ret.kind = "ok"
        /\ ret.resp.Text = AllPartsText(body)
        /\ ret.resp.Text = Concat(DeltaTexts))

\* the first JSON token of the body is not `[` (an empty body has no token)
FirstTokenNotBracket == body = << >> \/ FirstByte(body[1]) # "["

\* C5: when the first JSON token of the body is not `[`, GeminiProvider.Stream
\* emits no delta at all and returns an error.
C5_GeminiNeedsOpenBracket ==
  (IsStream("gemini") /\ FirstTokenNotBracket)
    => (deltas = << >> /\ (Returned => ret.kind = "err"))

C5_Witness ==
  /\ IsStream("gemini") /\ Returned /\ ~ctxDone
  /\ body # << >> /\ body[1] \in GeminiObjects
  /\ ret.err = "expected '[' at start of stream" /\ deltas = << >>

\* C6: OllamaProvider.Stream on a newline-delimited JSON body emits the
\* frames' contents as text deltas, then exactly one final Done delta, and
\* returns a response whose Text is the concatenation of the fragments.
C6_OllamaStreams ==
  (IsStream("ollama") /\ Returned /\ ~ctxDone /\ reqKind = "ok" /\ ~cbNil
     /\ status = 200 /\ body = <<OFrameHello, OFrameDone>>)
    => (/\ ret.kind = "ok"
        /\ DoneCount = 1 /\ deltas[Len(deltas)].Done
        /\ ret.resp.Text = Concat(DeltaTexts))

\* C7: a call during which a read of the reply failed because the context
\* was cancelled (or client.Do failed for it) returns an error, never a
\* response.
C7_CancelIsError ==
  (Returned /\ ioErr) => ret.kind = "err"

\* ================================================= Conversation properties
IsPrefix(s, t) == Len(s) <= Len(t) /\ SubSeq(t, 1, Len(s)) = s

\* C8: under any interleaving of AddUserMessage, AddAssistantResponse,
\* AddToolResultMessage and MessagesCopy on one Conversation, a writer is
\* alone between Lock and Unlock (no other writer, no reader), no append is
\* lost (the list is the system message followed by the appends that took
\* effect, so its length is 1 plus their number), and every slice MessagesCopy
\* returned is a prefix of the list.
C8_ExclusiveNoLostAppend ==
  /\ \A p, q \in Procs : (p # q /\ cpc[p] = "w") => cpc[q] = "idle"
  /\ Messages = NewConversation(TestPrompt).Messages \o appended
  /\ Len(Messages) = 1 + Len(appended)
  /\ \A p \in Procs : IsPrefix(copy[p], Messages)

C8_Witness ==
  \E p, q \in Procs :
    /\ p # q /\ cpc[q] = "w"
    /\ Len(appended) = 1
    /\ copy[p] = NewConversation(TestPrompt).Messages
    /\ cpc[p] = "idle"

\* C9: changing the slice MessagesCopy returned (replacing an element,
\* changing a field of an element, changing a tool call reachable from an
\* element) leaves the Conversation's message list as it was.
C9_CopyIsIndependent ==
  [][ChangeCopy(1) => Contents(Messages)' = Contents(Messages)]_allVars

\* C10: from any reachable state, AddUserMessage with empty content returns
\* at once with an error, and the message list (count and contents) is as
\* before.
C10_EmptyUserMessageRejected ==
  [][\A p \in Procs :
       AddUserMessage(p, << >>)
         => (/\ res'[p] = "err" /\ cpc'[p] = "idle"
             /\ Messages' = Messages /\ Contents(Messages)' = Contents(Messages)
             /\ appended' = appended)]_allVars

C10_Witness ==
  \E p \in Procs : res[p] = "err" /\ cpc[p] = "idle" /\ Len(Messages) = 2

\* the Conversation exists
Created == \E p \in Procs : cpc[p] # "new"

\* C11: NewConversation with an empty system prompt returns an error and no
\* Conversation; with any other prompt it returns a Conversation whose list
\* is exactly one system-role message carrying the prompt; and that message
\* stays at index 0, unchanged, through every Add* operation.
C11_SystemMessageFirst ==
  [][/\ \A systemPrompt \in Prompts :
          NewConversationCall(systemPrompt) =>
            IF systemPrompt = << >>
            THEN res'[1] = "err" /\ ~Created' /\ Messages' = << >>
            ELSE /\ res'[1] = "ok" /\ Created'
                 /\ Messages' = << [Role |-> "system", Content |-> systemPrompt, Name |-> "",
                                    ToolCallID |-> "", ToolCalls |-> NilSlice] >>
     /\ Created =>
          /\ Len(Messages') >= 1
          /\ Contents(Messages)'[1] = Contents(Messages)[1]
          /\ Messages'[1].Role = "system"]_allVars

C11_Witness ==
  /\ Len(Messages) = 1 + MaxAppends
  /\ Messages[1].Content = <<"You are a helpful weather assistant.">>
  /\ \E i \in 2..Len(Messages) : Messages[i].Role = "tool"

\* C12: the log is append-only and ordered. AddUserMessage with non-empty
\* content, AddAssistantResponse with a non-nil response and
\* AddToolResultMessage each append exactly one message at the end: role user
\* with the content; role assistant with the response's Text and ToolCalls;
\* role tool with the result and the given ToolCallID. AddAssistantResponse(nil)
\* appends nothing. Every message stored before keeps its position and content.
C12_AppendOnly ==
  [][\A p \in Procs :
       /\ \A content \in UserContents :
            (content # << >> /\ AddUserMessage(p, content)) =>
              /\ cpc'[p] = "w"
              /\ carg'[p] = [Role |-> "user", Content |-> content, Name |-> "",
                             ToolCallID |-> "", ToolCalls |-> NilSlice]
       /\ \A resp \in Responses :
            AddAssistantResponse(p, resp) =>
              IF resp.nil
              THEN cpc'[p] = "idle" /\ Messages' = Messages /\ appended' = appended
              ELSE /\ cpc'[p] = "w"
                   /\ carg'[p] = [Role |-> "assistant", Content |-> resp.Text, Name |-> "",
                                  ToolCallID |-> "", ToolCalls |-> resp.ToolCalls]
       /\ \A t \in ToolResults :
            AddToolResultMessage(p, t.id, t.result) =>
              /\ cpc'[p] = "w"
              /\ carg'[p] = [Role |-> "tool", Content |-> t.result, Name |-> "",
                             ToolCallID |-> t.id, ToolCalls |-> NilSlice]
       /\ FinishAppend(p) =>
            /\ Messages' = Messages \o <<carg[p]>>
            /\ Contents(Messages)' = Contents(Messages) \o Contents(<<carg[p]>>)
       /\ (Created /\ \A q \in Procs : ~FinishAppend(q))
            => Contents(Messages)' = Contents(Messages)
    ]_allVars

C12_Witness ==
  /\ Len(Messages) = 3
  /\ Messages[2].Role = "assistant" /\ Messages[2].ToolCalls # NilSlice
  /\ Messages[3].Role = "tool" /\ Messages[3].ToolCallID = "tool-123"
  /\ \A p \in Procs : cpc[p] = "idle"

\* C13: in every state of the Conversation, the ToolCallID of every tool-role
\* message is the ID of a tool call carried by an assistant message that
\* stands earlier in the list.
C13_ToolResultReferencesCall ==
  \A i \in 1..Len(Messages) :
    Messages[i].Role = "tool" =>
      \E k \in 1..(i - 1) :
        /\ Messages[k].Role = "assistant"
        /\ Messages[k].ToolCalls # NilSlice
        /\ \E j \in 1..Len(heap[Messages[k].ToolCalls]) :
             heap[Messages[k].ToolCalls][j].ID = Messages[i].ToolCallID

\* ============================================================ Query properties
IsQuery(pr) == provider = pr /\ op = "Query"

\* a Query call that got the whole reply, with a 2xx status, undisturbed
QueryServed ==
  /\ op = "Query" /\ Returned /\ ~ctxDone /\ reqKind = "ok" /\ Is2xx(status)

\* the IDs of the tool calls of the returned response, in order
ReturnedIDs == [i \in 1..Len(ret.resp.ToolCalls) |-> ret.resp.ToolCalls[i].ID]

NonEmptyAndDistinct(ids) ==
  /\ \A i \in 1..Len(ids) : ids[i] # ""
  /\ \A i, j \in 1..Len(ids) : i # j => ids[i] # ids[j]

\* a reply text that fits the OpenAI-compatible schema, with a first choice
\* whose message is present and whose tool calls hold function objects
WellFormedReply(text) ==
  LET wire == UnmarshalWire(text) IN
  /\ wire.ok /\ Len(wire.choices) >= 1 /\ wire.choices[1].message # << >>
  /\ \A i \in 1..Len(wire.choices[1].message[1].toolCalls) :
       LET f == wire.choices[1].message[1].toolCalls[i].function IN
       f.obj /\ f.name # << >> /\ DecodeString(f.name).ok

\* C14: for a well-formed OpenAI-compatible reply with at least one choice
\* whose message is present, Query returns Text = choices[0].message.content,
\* FinishReason = choices[0].finish_reason, and one ToolCall per element of
\* choices[0].message.tool_calls, in the same order, with its id and its
\* function name.
C14_QueryMapsFirstChoice ==
  (IsQuery("openai") /\ QueryServed /\ Len(body) = 1 /\ WellFormedReply(body[1])) =>
    LET choice == UnmarshalWire(body[1]).choices[1]
        tcs == choice.message[1].toolCalls IN
    /\ ret.kind = "ok"
    /\ ret.resp.Text = choice.message[1].content
    /\ ret.resp.FinishReason = choice.finish
    /\ Len(ret.resp.ToolCalls) = Len(tcs)
    /\ \A i \in 1..Len(tcs) :
         /\ ret.resp.ToolCalls[i].ID = tcs[i].id
         /\ JSONString(ret.resp.ToolCalls[i].Name) = tcs[i].function.name

C14_Witness ==
  /\ IsQuery("openai") /\ QueryServed /\ body = <<QTwoCalls>>
  /\ ret.kind = "ok" /\ ret.resp.FinishReason = "tool_calls"
  /\ ReturnedIDs = <<"call_abc123", "call_def456">>
  /\ ret.resp.ToolCalls[2].Name = <<"get_time">>

\* a 2xx reply body that does not fit the adapter's schema, or holds no choice
\* (no candidate), or a first choice without message
BadReply(pr, b) ==
  IF Len(b) # 1 THEN TRUE
  ELSE IF pr = "openai" THEN
    LET wire == UnmarshalWire(b[1]) IN
    ~wire.ok \/ Len(wire.choices) = 0 \/ wire.choices[1].message = << >>
  ELSE IF pr = "gemini" THEN
    ~UnmarshalGemini(b[1]).ok \/ Len(UnmarshalGemini(b[1]).candidates) = 0
  ELSE ~UnmarshalOllama(b[1]).ok

\* C15: Query returns an error and no response when a 2xx reply body does not
\* match the expected schema, has zero choices, or has a first choice with a
\* nil message.
C15_BadReplyIsError ==
  (QueryServed /\ BadReply(provider, body)) => (ret.kind = "err" /\ ret.resp = NoResp)

\* C16: a Query or Stream call of any adapter that receives a status outside
\* 2xx returns an error that carries the raw reply body, and no response.
C16_Non2xxCarriesBody ==
  (Returned /\ httpSent /\ ~ctxDone /\ ~Is2xx(status) /\ body # << >>) =>
    (ret.kind = "err" /\ ret.resp = NoResp /\ ret.raw = <<body>>)

\* C17: Query and Stream of every adapter, called with a nil request or an
\* empty message list, return an error before any I/O: no HTTP request is sent.
C17_ValidationBeforeIO ==
  (reqKind \in {"nil", "empty"}) => (~httpSent /\ (Returned => ret.kind = "err"))

\* C18: every ToolCall OllamaProvider.Query returns has a non-empty ID, and no
\* two tool calls, of one response or of different responses, have the same ID.
C18_OllamaIDsUnique ==
  (IsQuery("ollama") /\ Returned /\ ret.kind = "ok") =>
    /\ NonEmptyAndDistinct(ReturnedIDs)
    /\ \A i \in 1..Len(ReturnedIDs) : ReturnedIDs[i] \notin issued

C18_Witness ==
  /\ IsQuery("ollama") /\ Returned /\ ret.kind = "ok" /\ calls = 2
  /\ Len(ReturnedIDs) = 2 /\ Cardinality(issued) = 2

\* C19: in every response a Query of any adapter returns, every ToolCall.ID is
\* non-empty and the IDs are pairwise distinct, whatever the wire carried.
C19_ToolCallIDsUnique ==
  (op = "Query" /\ Returned /\ ret.kind = "ok") => NonEmptyAndDistinct(ReturnedIDs)

\* C20: when the tool calls a request carries are encoded by
\* ToOpenAIChatMessages and the server echoes them back, the Arguments of the
\* tool calls parsed from the reply are byte-equal to the original ones (so
\* that any number of round trips leaves them as they were).
C20_ArgumentsRoundTrip ==
  (IsQuery("openai") /\ Returned /\ ret.kind = "ok" /\ body = <<QEcho>>) =>
    /\ Len(ret.resp.ToolCalls) = Len(reqToolCalls)
    /\ \A i \in 1..Len(reqToolCalls) :
         ret.resp.ToolCalls[i].Arguments = reqToolCalls[i].Arguments

\* ========================================================= later claims
\* the texts of the messages that are no system messages, in their order
NonSystemTexts(msgs) ==
  LET keep == SelectSeq(msgs, LAMBDA m : m.Role # RoleSystem) IN
  [i \in 1..Len(keep) |-> keep[i].Content]

\* C21: every entry of the `contents` array the Gemini adapter sends has role
\* `user` or `model`; system messages never appear in it; the other messages
\* keep their order.
C21_GeminiContentsRoles ==
  payload.built =>
    /\ \A i \in 1..Len(payload.contents) : payload.contents[i].role \in {"user", "model"}
    /\ [i \in 1..Len(payload.contents) |-> payload.contents[i].parts[1].text]
         = NonSystemTexts(reqMessages)

\* a step of the scan loop that takes the whole line `line` off the body
ScansLine(line) ==
  /\ IsStream("openai") /\ pc = "scan" /\ scErr = "none"
  /\ pos < avail /\ body[pos + 1] = line /\ pos' = pos + 1

\* C24: in openAICompatibleProvider.Stream a `data: ` frame whose payload is
\* not valid JSON is skipped: no delta is emitted, the accumulated text, the
\* finish reason and the usage stay as they are, Stream does not fail, and the
\* loop goes on with the next frame in the state it had before the frame.
C24_MalformedFrameSkipped ==
  [][ScansLine(LBad) =>
       /\ deltas' = deltas /\ fullText' = fullText /\ finalResponse' = finalResponse
       /\ pc' = "scan" /\ scErr' = "none" /\ ret' = NotReturned]_allVars

C24_Witness ==
  /\ IsStream("openai") /\ Returned /\ ret.kind = "ok"
  /\ body = <<LHello, LBad, LWorld>>
  /\ DeltaTexts = <<<<"Hello,">>, <<" world!">>, << >>>>
  /\ ret.resp.Text = <<"Hello,", " world!">> /\ ret.resp.FinishReason = "stop"

\* the body has no `data: [DONE]` frame and no line the scanner cannot hold
EndsAtEOF(b) == \A i \in 1..Len(b) : b[i] # LDone /\ ~LineTooLong(b[i])

\* C25: the event-stream decoder stops reading at the first `data: [DONE]`
\* frame or at EOF: once the loop is left no further frame is read and nothing
\* but the final Done delta is added; a body that ends at EOF without
\* `data: [DONE]` ends with one Done delta and a successful return; and after a
\* 2xx status Stream fails only when a read of the body has failed.
C25_DoneOrEOF ==
  /\ [][(IsStream("openai") /\ pc = "fin") =>
          /\ pos' = pos /\ fullText' = fullText
          /\ \/ deltas' = deltas
             \/ deltas' = Append(deltas, DoneDelta(finalResponse.FinishReason))
          /\ finalResponse'.FinishReason = finalResponse.FinishReason
          /\ finalResponse'.Usage = finalResponse.Usage]_allVars
  /\ []((IsStream("openai") /\ Returned /\ httpSent /\ Is2xx(status) /\ ~ctxDone
           /\ EndsAtEOF(body))
          => (ret.kind = "ok" /\ DoneCount = 1 /\ deltas[Len(deltas)].Done))
  /\ []((IsStream("openai") /\ Returned /\ httpSent /\ Is2xx(status) /\ ret.kind = "err"
           /\ ret.err # "failed to send stream request")
          => ioErr)

\* the finishReason an array object carries (that of its first candidate),
\* and the usage it carries, as the wire text holds them
CarriedFinish(tok) ==
  IF tok \in {GHello} THEN "RECITATION" ELSE IF tok \in {GWorld} THEN "STOP" ELSE ""
CarriedUsage(tok) ==
  IF tok = GWorld THEN <<[prompt |-> 5, completion |-> 10, total |-> 15]>> ELSE NoUsage

RECURSIVE LastFinish(_)
LastFinish(toks) ==
  IF toks = << >> THEN ""
  ELSE IF CarriedFinish(toks[Len(toks)]) # "" THEN CarriedFinish(toks[Len(toks)])
  ELSE LastFinish(SubSeq(toks, 1, Len(toks) - 1))

RECURSIVE LastUsage(_)
LastUsage(toks) ==
  IF toks = << >> THEN NoUsage
  ELSE IF CarriedUsage(toks[Len(toks)]) # NoUsage THEN CarriedUsage(toks[Len(toks)])
  ELSE LastUsage(SubSeq(toks, 1, Len(toks) - 1))

\* C26: in GeminiProvider.Stream the FinishReason of the returned response is
\* the finishReason of the last array object that carries a non-empty one, the
\* Usage is that of the last object that carries usage, and the final Done
\* delta has the FinishReason of the returned response.
C26_GeminiLastFinishAndUsage ==
  (IsStream("gemini") /\ Returned /\ ret.kind = "ok") =>
    /\ ret.resp.FinishReason = LastFinish(SubSeq(body, 1, pos))
    /\ ret.resp.Usage = LastUsage(SubSeq(body, 1, pos))
    /\ deltas[Len(deltas)].Done
    /\ deltas[Len(deltas)].FinishReason = ret.resp.FinishReason

C26_Witness ==
  /\ IsStream("gemini") /\ Returned /\ ret.kind = "ok"
  /\ body = <<"[", GHello, ",", GWorld, "]">>
  /\ ret.resp.FinishReason = "STOP"
  /\ ret.resp.Usage = <<[prompt |-> 5, completion |-> 10, total |-> 15]>>
  /\ deltas[3] = DoneDelta("STOP")

\* the decoder of GeminiProvider.Stream has met an array element that is no
\* well-formed JSON, or one that does not fit geminiResponse
MalformedElementMet ==
  /\ IsStream("gemini")
  /\ scErr = "syntax" \/ \E i \in 1..pos : body[i] = GType

\* C27: in GeminiProvider.Stream a malformed array element aborts the whole
\* stream: Stream returns an error, emits no Done delta and processes no
\* element after the malformed one.
C27_GeminiMalformedAborts ==
  MalformedElementMet => (Returned /\ ret.kind = "err" /\ DoneCount = 0)

\* C29: in openAICompatibleProvider.Stream and GeminiProvider.Stream a Done
\* delta is emitted if and only if the call returns a nil error: no Done delta
\* precedes an error return, and a successful return comes with exactly one
\* Done delta, the last delta, whose FinishReason is that of the response.
C29_DoneIffNilError ==
  (IsStream("openai") \/ IsStream("gemini")) =>
    /\ DoneCount > 0 => (Returned /\ ret.kind = "ok")
    /\ (Returned /\ ret.kind = "err") => DoneCount = 0
    /\ (Returned /\ ret.kind = "ok") =>
         /\ DoneCount = 1 /\ deltas[Len(deltas)].Done
         /\ deltas[Len(deltas)].FinishReason = ret.resp.FinishReason

C29_Witness ==
  /\ IsStream("gemini") /\ Returned /\ ret.kind = "ok"
  /\ body = <<"[", GWorld, ",", GHello, "]">>
  /\ deltas = <<TextDelta(<<" world!">>), TextDelta(<<"Hello,">>), DoneDelta("RECITATION")>>

\* C30: GeminiProvider.Stream terminates on every finite response body: the
\* call eventually returns, also when an array element fails to decode
\* (stated for the calls whose context is never cancelled, the body arriving
\* whole).
C30_GeminiStreamTerminates ==
  IsStream("gemini") ~> (Returned \/ ctxDone)

\* C22: a consumer that receives from the StreamQuery channel until it is
\* closed receives exactly the deltas the provider's Stream emitted, in that
\* order; the channel is closed once, after Stream has returned; nothing is
\* sent after the Done delta or after the closure.
C22_ChannelCarriesDeltas ==
  /\ [](/\ IsPrefix(received, deltas)
        /\ chClosed <= 1
        /\ chClosed = 1 => (Returned /\ received = deltas)
        /\ consumer = "end" => (chClosed = 1 /\ received = deltas)
        /\ \A i \in 1..Len(deltas) : deltas[i].Done => i = Len(deltas))
  /\ [][chClosed = 1 => (chClosed' = 1 /\ deltas' = deltas /\ received' = received)]_allVars

C22_Witness ==
  /\ IsStream("openai") /\ consumer = "end" /\ chClosed = 1
  /\ body = <<LHello, LWorld, LDone>>
  /\ received = <<TextDelta(<<"Hello,">>), TextDelta(<<" world!">>), DoneDelta("stop")>>

\* C23: after the context passed to StreamQuery is cancelled the producer
\* goroutine eventually returns and closes the channel, whether or not the
\* consumer still receives (stated for the OpenAI-compatible adapter).
C23_CancelClosesChannel ==
  (IsStream("openai") /\ ctxDone) ~> (chClosed = 1)

\* the tool calls of the first response: Query's result until the second
\* Query is called, the ones that call's request carries afterwards
FirstToolCalls == IF calls = 1 THEN ret.resp.ToolCalls ELSE reqToolCalls

\* msgs is [system, user, assistant, tool x k], the tool results carrying the IDs
\* of the first k tool calls of the first response in their order
FlowShape(msgs, k) ==
  /\ Len(msgs) = 3 + k
  /\ msgs[1].Role = RoleSystem /\ msgs[2].Role = RoleUser /\ msgs[3].Role = RoleAssistant
  /\ Contents(msgs)[3].ToolCalls = FirstToolCalls
  /\ \A i \in 1..k :
       /\ msgs[3 + i].Role = RoleTool
       /\ msgs[3 + i].ToolCallID = FirstToolCalls[i].ID

\* C28: in the tool-calling flow, after the first Query returned n tool calls
\* the conversation is [system, user, assistant, tool x n]: one tool-result
\* message per tool call, in the order of the response's tool calls, the i-th
\* with the ID of the i-th tool call, all after the assistant message and in
\* place before the second Query's request is built from MessagesCopy.
C28_ToolFlowShape ==
  /\ fpc = "tools" => \E k \in {ti, ti + 1} : FlowShape(Messages, k)
  /\ fpc = "copy2" => FlowShape(Messages, Len(FirstToolCalls))
  /\ fpc = "query2" =>
       /\ FlowShape(Messages, Len(FirstToolCalls))
       /\ FlowShape(reqMessages, Len(FirstToolCalls))

C28_Witness ==
  /\ fpc = "query2" /\ calls = 2 /\ provider = "openai"
  /\ Len(reqMessages) = 5
  /\ reqMessages[4].ToolCallID = "call_abc123"
  /\ reqMessages[5].ToolCallID = "call_def456"

====
